---- MODULE Spec2Model ----
(***************************************************************************)
(* Model of the change / undo engine of the fontra client:                 *)
(*   - changes.js: ChangeCollector, consolidateChanges, applyChange        *)
(*   - font-controller: UndoStack, GlyphEditContext, pushUndoRecord        *)
(*   - scene-controller.js: the edit orchestration (_editGlyphOrInstance)  *)
(*   - utils: throttleCalls                                                *)
(*                                                                         *)
(* Encoding of JavaScript values.                                          *)
(*   object        a function whose domain is a set of strings; a missing  *)
(*                 key is `undefined'                                      *)
(*   array         a sequence                                              *)
(*   number n      (inside documents) the record [num |-> n], so that a    *)
(*                 property lookup on it finds nothing, as in JavaScript   *)
(*   path segment  a string; the integer index i is written "#i", so the   *)
(*                 integer 0 is "#0"; the falsy segments are "" and "#0"   *)
(*   change        a record with the optional fields p, f, a, c            *)
(***************************************************************************)
EXTENDS Integers, Sequences, FiniteSets, TLC

\* ------------------------------------------------------------------------
\* JavaScript object helpers
\* ------------------------------------------------------------------------

\* {}
EmptyObj == [x \in {} |-> 0]

\* k in obj
Has(obj, k) == k \in DOMAIN obj

\* delete obj[k] on a copy
Without(obj, k) == [x \in DOMAIN obj \ {k} |-> obj[x]]

\* obj[k] = v on a copy
With(obj, k, v) == [x \in DOMAIN obj \cup {k} |-> IF x = k THEN v ELSE obj[x]]

\* a number stored in a document
Num(n) == [num |-> n]

\* !pathElement: the empty string and the integer 0 are falsy
Falsy(seg) == seg \in {"", "#0"}

\* array.slice(n)
Slice(s, n) == SubSeq(s, n + 1, Len(s))

\* ------------------------------------------------------------------------
\* changes.js: pure functions
\* ------------------------------------------------------------------------

\* change.p?.length is truthy
HasPath(change) == Has(change, "p") /\ Len(change.p) > 0

\* change.f is truthy
HasFunc(change) == Has(change, "f") /\ change.f # ""

isNotEmpty(obj) == DOMAIN obj # {}

equalPath(p1, hasP2, p2) ==
    /\ hasP2
    /\ Len(p1) = Len(p2)
    /\ \A i \in 1..Len(p1) : p1[i] = p2[i]

\* the index loop of findCommonPrefix; index counts from 1 here
RECURSIVE CommonPrefixFrom(_, _)
CommonPrefixFrom(changes, index) ==
    IF index > Len(changes[1].p) THEN <<>>
    ELSE LET pathElement == changes[1].p[index]
         IN  IF Falsy(pathElement) THEN <<>>
             ELSE IF \E i \in 2..Len(changes) :
                        \/ index > Len(changes[i].p)
                        \/ changes[i].p[index] # pathElement
                  THEN <<>>
                  ELSE <<pathElement>> \o CommonPrefixFrom(changes, index + 1)

findCommonPrefix(changes) ==
    IF Len(changes) = 0 THEN <<>>
    ELSE IF \E i \in 1..Len(changes) : ~HasPath(changes[i]) THEN <<>>
    ELSE CommonPrefixFrom(changes, 1)

RECURSIVE unnestSingleChildren(_)
RECURSIVE UnnestAndFilter(_)

\* the filter applied to the children as they were, not as map() returned them
UnnestAndFilter_raw(children) ==
    IF children = <<>> THEN <<>>
    ELSE LET child == unnestSingleChildren(Head(children))
         IN  (IF isNotEmpty(child) THEN <<Head(children)>> ELSE <<>>)
                 \o UnnestAndFilter(Tail(children))

\* children.map(unnestSingleChildren).filter(isNotEmpty)
UnnestAndFilter(children) ==
    IF children = <<>> THEN <<>>
    ELSE LET child == unnestSingleChildren(Head(children))
         IN  (IF isNotEmpty(child) THEN <<child>> ELSE <<>>)
                 \o UnnestAndFilter(Tail(children))

\* unnestSingleChildren without `if (!change.f) change = {}'
unnestSingleChildren_keep(change) ==
    IF ~Has(change, "c")
    THEN change
    ELSE LET children == UnnestAndFilter(change.c)
         IN  IF Len(children) = 0
             THEN Without(change, "c")
             ELSE IF Len(children) # 1
             THEN With(change, "c", children)
             ELSE LET child == children[1]
                      childPath == IF Has(child, "p") THEN child.p ELSE <<>>
                      path == IF HasPath(change) THEN change.p \o childPath ELSE childPath
                  IN  IF Len(path) > 0 THEN With(child, "p", path)
                      ELSE Without(child, "p")

unnestSingleChildren(change) ==
    IF ~Has(change, "c")
    THEN (IF ~HasFunc(change) THEN EmptyObj ELSE change)
    ELSE LET children == UnnestAndFilter(change.c)
         IN  IF Len(children) = 0
             THEN (IF ~HasFunc(change) THEN EmptyObj ELSE Without(change, "c"))
             ELSE IF Len(children) # 1
             THEN With(change, "c", children)
             ELSE LET child == children[1]
                      childPath == IF Has(child, "p") THEN child.p ELSE <<>>
                      path == IF HasPath(change) THEN change.p \o childPath ELSE childPath
                  IN  IF Len(path) > 0 THEN With(child, "p", path)
                      ELSE Without(child, "p")

addPathPrefix(change, prefixPath) ==
    With(change, "p", prefixPath \o (IF Has(change, "p") THEN change.p ELSE <<>>))

\* the map() of the branch with a common prefix that leaves the paths whole
StripPrefix_whole(change, numCommonElements) == change

\* the map() of the branch with a common prefix
StripPrefix(change, numCommonElements) ==
    LET p == Slice(change.p, numCommonElements)
    IN  IF Len(p) = 0 THEN Without(change, "p") ELSE With(change, "p", p)

\* the map() of the branch without a common prefix ("Zap empty p")
ZapEmptyPath(change) ==
    IF Has(change, "p") /\ Len(change.p) = 0 THEN Without(change, "p") ELSE change

\* the node built by the first half of consolidateChanges, before unnesting
ConsolidateRaw(changes) ==
    IF Len(changes) = 1
    THEN LET change == changes[1]
         IN  IF HasPath(change) THEN change ELSE Without(change, "p")
    ELSE LET commonPrefix == findCommonPrefix(changes)
             numCommonElements == Len(commonPrefix)
         IN  IF numCommonElements > 0
             THEN [c |-> [i \in 1..Len(changes) |->
                             StripPrefix(changes[i], numCommonElements)],
                   p |-> commonPrefix]
             ELSE [c |-> [i \in 1..Len(changes) |-> ZapEmptyPath(changes[i])]]

\* consolidateChanges(changes, prefixPath); `changes' is the array the code
\* works on after its Array.isArray normalisation (see AsArray)
consolidateChanges(changes, prefixPath) ==
    LET change == unnestSingleChildren(ConsolidateRaw(changes))
    IN  IF Len(prefixPath) > 0 THEN addPathPrefix(change, prefixPath) ELSE change

\* if (!Array.isArray(changes)) changes = [changes]
AsArray(change) == <<change>>

\* ------------------------------------------------------------------------
\* changes.js: applyChange
\* ------------------------------------------------------------------------

\* baseChangeFunctions "=" and "d"; the result is the mutated subject
ApplyFunc(subject, f, a) ==
    CASE f = "=" -> With(subject, a[1], a[2])
      [] f = "d" -> Without(subject, a[1])
      [] OTHER -> subject

\* applyChange mutates the subject in place and may throw half way; the
\* result is [doc |-> the subject afterwards, err |-> whether it threw]
RECURSIVE applyChange(_, _)
RECURSIVE ApplyChildren(_, _)
RECURSIVE ApplyAtPath(_, _, _)

ApplyChildren(subject, children) ==
    IF children = <<>> THEN [doc |-> subject, err |-> FALSE]
    ELSE LET r == applyChange(subject, Head(children))
         IN  IF r.err THEN r ELSE ApplyChildren(r.doc, Tail(children))

\* the path loop without its `throw': a missing element ends the call
ApplyAtPath_skip(subject, path, change) ==
    IF path = <<>>
    THEN LET afterFunc == IF HasFunc(change)
                          THEN ApplyFunc(subject, change.f,
                                         IF Has(change, "a") THEN change.a ELSE <<>>)
                          ELSE subject
         IN  ApplyChildren(afterFunc, IF Has(change, "c") THEN change.c ELSE <<>>)
    ELSE IF ~Has(subject, Head(path))
    THEN [doc |-> subject, err |-> FALSE]
    ELSE LET r == ApplyAtPath(subject[Head(path)], Tail(path), change)
         IN  [doc |-> With(subject, Head(path), r.doc), err |-> r.err]

ApplyAtPath(subject, path, change) ==
    IF path = <<>>
    THEN LET afterFunc == IF HasFunc(change)
                          THEN ApplyFunc(subject, change.f,
                                         IF Has(change, "a") THEN change.a ELSE <<>>)
                          ELSE subject
         IN  ApplyChildren(afterFunc, IF Has(change, "c") THEN change.c ELSE <<>>)
    ELSE IF ~Has(subject, Head(path))
    THEN [doc |-> subject, err |-> TRUE]
    ELSE LET r == ApplyAtPath(subject[Head(path)], Tail(path), change)
         IN  [doc |-> With(subject, Head(path), r.doc), err |-> r.err]

applyChange(subject, change) ==
    ApplyAtPath(subject, IF Has(change, "p") THEN change.p ELSE <<>>, change)

\* ------------------------------------------------------------------------
\* changes.js: matchChange
\* ------------------------------------------------------------------------

RECURSIVE matchChange(_, _)
RECURSIVE MatchChildren(_, _)
RECURSIVE MatchAlongPath(_, _, _)

\* the loop over the children with `return matchChange(children[0], ...)'
MatchChildren_first(children, matchPath) ==
    IF children = <<>> THEN FALSE
    ELSE matchChange(Head(children), matchPath)

\* for (const subChange of children) ...; return false
MatchChildren(children, matchPath) ==
    IF children = <<>> THEN FALSE
    ELSE IF matchChange(Head(children), matchPath) THEN TRUE
    ELSE MatchChildren(Tail(children), matchPath)

\* for (const pathElement of path) ..., then the children; shift() of an
\* empty matchPath gives undefined, which no path element equals
MatchAlongPath(path, matchPath, children) ==
    IF path = <<>> THEN MatchChildren(children, matchPath)
    ELSE IF matchPath = <<>> \/ Head(path) # Head(matchPath) THEN FALSE
    ELSE IF Tail(matchPath) = <<>> THEN TRUE
    ELSE MatchAlongPath(Tail(path), Tail(matchPath), children)

matchChange(change, matchPath) ==
    MatchAlongPath(IF Has(change, "p") THEN change.p ELSE <<>>, matchPath,
                   IF Has(change, "c") THEN change.c ELSE <<>>)

\* ------------------------------------------------------------------------
\* changes.js: ChangeCollector
\*
\* The arrays a collector and its parent share are modelled as a heap:
\* `arrays' maps an array id to its entries, and the c field of a path
\* entry of a collector list holds the id of the shared array.
\* ------------------------------------------------------------------------

\* new ChangeCollector(parentCollector, path); 0 stands for undefined
NewCollector(parentCollector, path) ==
    [parent |-> parentCollector, path |-> path, fwd |-> 0, rb |-> 0]

lastItem(array) == array[Len(array)]

RECURSIVE EnsureForwardChanges(_, _)

\* _ensureForwardChanges that pushes a new entry whatever the last entry is
EnsureForwardChanges_push(st, id) ==
    LET self == st.colls[id]
    IN  IF self.fwd # 0 THEN st
        ELSE IF self.parent = 0
        THEN [arrays |-> Append(st.arrays, <<>>),
              colls |-> [st.colls EXCEPT ![id].fwd = Len(st.arrays) + 1]]
        ELSE LET st1 == EnsureForwardChanges(st, self.parent)
                 pa == st1.colls[self.parent].fwd
                 plist == st1.arrays[pa]
                 fresh == Len(st1.arrays) + 1
             IN  [arrays |-> Append([st1.arrays EXCEPT ![pa] =
                                 Append(plist, [p |-> self.path, c |-> fresh])],
                              <<>>),
                  colls |-> [st1.colls EXCEPT ![id].fwd = fresh]]

\* _ensureForwardChanges on collector id of the heap state st
EnsureForwardChanges(st, id) ==
    LET self == st.colls[id]
    IN  IF self.fwd # 0 THEN st
        ELSE IF self.parent = 0
        THEN [arrays |-> Append(st.arrays, <<>>),
              colls |-> [st.colls EXCEPT ![id].fwd = Len(st.arrays) + 1]]
        ELSE LET st1 == EnsureForwardChanges(st, self.parent)
                 pa == st1.colls[self.parent].fwd
                 plist == st1.arrays[pa]
                 fresh == Len(st1.arrays) + 1
             IN  IF /\ Len(plist) > 0
                    /\ equalPath(self.path, Has(lastItem(plist), "p"),
                                 IF Has(lastItem(plist), "p")
                                 THEN lastItem(plist).p ELSE <<>>)
                 THEN [arrays |-> st1.arrays,
                       colls |-> [st1.colls EXCEPT ![id].fwd = lastItem(plist).c]]
                 ELSE [arrays |-> Append([st1.arrays EXCEPT ![pa] =
                                     Append(plist, [p |-> self.path, c |-> fresh])],
                                  <<>>),
                       colls |-> [st1.colls EXCEPT ![id].fwd = fresh]]

\* _ensureRollbackChanges on collector id of the heap state st
RECURSIVE EnsureRollbackChanges(_, _)
EnsureRollbackChanges(st, id) ==
    LET self == st.colls[id]
    IN  IF self.rb # 0 THEN st
        ELSE IF self.parent = 0
        THEN [arrays |-> Append(st.arrays, <<>>),
              colls |-> [st.colls EXCEPT ![id].rb = Len(st.arrays) + 1]]
        ELSE LET st1 == EnsureRollbackChanges(st, self.parent)
                 pa == st1.colls[self.parent].rb
                 plist == st1.arrays[pa]
                 fresh == Len(st1.arrays) + 1
             IN  IF /\ Len(plist) > 0
                    /\ equalPath(self.path, Has(plist[1], "p"),
                                 IF Has(plist[1], "p") THEN plist[1].p ELSE <<>>)
                 THEN [arrays |-> st1.arrays,
                       colls |-> [st1.colls EXCEPT ![id].rb = plist[1].c]]
                 ELSE [arrays |-> Append([st1.arrays EXCEPT ![pa] =
                                     <<[p |-> self.path, c |-> fresh]>> \o plist],
                                  <<>>),
                       colls |-> [st1.colls EXCEPT ![id].rb = fresh]]

\* addChange(func, ...args)
addChange(st, id, func, args) ==
    LET st1 == EnsureForwardChanges(st, id)
        arr == st1.colls[id].fwd
    IN  [st1 EXCEPT !.arrays[arr] = Append(@, [f |-> func, a |-> args])]

\* addRollbackChange with `this._rollbackChanges.push(...)'
addRollbackChange_push(st, id, func, args) ==
    LET st1 == EnsureRollbackChanges(st, id)
        arr == st1.colls[id].rb
    IN  [st1 EXCEPT !.arrays[arr] = Append(@, [f |-> func, a |-> args])]

\* addRollbackChange(func, ...args)
addRollbackChange(st, id, func, args) ==
    LET st1 == EnsureRollbackChanges(st, id)
        arr == st1.colls[id].rb
    IN  [st1 EXCEPT !.arrays[arr] = <<[f |-> func, a |-> args]>> \o @]

\* the array with id arr as a plain list of change objects: the c of a
\* path entry is followed through the heap
RECURSIVE ChangeList(_, _)
ChangeList(arrs, arr) ==
    [i \in 1..Len(arrs[arr]) |->
        LET e == arrs[arr][i]
        IN  IF Has(e, "c") THEN [p |-> e.p, c |-> ChangeList(arrs, e.c)] ELSE e]

\* get hasChange
hasChange(st, id) == st.colls[id].fwd # 0 /\ Len(st.arrays[st.colls[id].fwd]) > 0

\* get hasRollbackChange
hasRollbackChange(st, id) == st.colls[id].rb # 0 /\ Len(st.arrays[st.colls[id].rb]) > 0

\* get change
getChange(st, id) ==
    IF st.colls[id].fwd # 0
    THEN consolidateChanges(ChangeList(st.arrays, st.colls[id].fwd), <<>>)
    ELSE consolidateChanges(AsArray(EmptyObj), <<>>)

\* get rollbackChange
getRollbackChange(st, id) ==
    IF st.colls[id].rb # 0
    THEN consolidateChanges(ChangeList(st.arrays, st.colls[id].rb), <<>>)
    ELSE consolidateChanges(AsArray(EmptyObj), <<>>)

\* ------------------------------------------------------------------------
\* font-controller: UndoStack
\* ------------------------------------------------------------------------

\* the JavaScript value undefined, where a record or a stack is expected
Undefined == [undefined |-> TRUE]

\* new UndoStack()
NewUndoStack == [undoStack |-> <<>>, redoStack |-> <<>>]

\* pushUndoRecord without `this.redoStack = []'
pushUndoRecord_keepRedo(stack, undoRecord) ==
    [undoStack |-> Append(stack.undoStack, undoRecord), redoStack |-> stack.redoStack]

\* UndoStack.pushUndoRecord(undoRecord)
pushUndoRecord(stack, undoRecord) ==
    [undoStack |-> Append(stack.undoStack, undoRecord), redoStack |-> <<>>]

\* UndoStack.getTopUndoRedoRecord(isRedo)
getTopUndoRedoRecord(stack, isRedo) ==
    LET st == IF ~isRedo THEN stack.undoStack ELSE stack.redoStack
    IN  IF Len(st) > 0 THEN st[Len(st)] ELSE Undefined

\* _popUndoRedoRecord with `pushStack.unshift(undoRecord)'
_popUndoRedoRecord_unshift(popStack, pushStack) ==
    IF Len(popStack) = 0
    THEN [pop |-> popStack, push |-> pushStack, ret |-> Undefined]
    ELSE [pop |-> SubSeq(popStack, 1, Len(popStack) - 1),
          push |-> <<popStack[Len(popStack)]>> \o pushStack,
          ret |-> popStack[Len(popStack)]]

\* _popUndoRedoRecord without `pushStack.push(undoRecord)'
_popUndoRedoRecord_drop(popStack, pushStack) ==
    IF Len(popStack) = 0
    THEN [pop |-> popStack, push |-> pushStack, ret |-> Undefined]
    ELSE [pop |-> SubSeq(popStack, 1, Len(popStack) - 1),
          push |-> pushStack,
          ret |-> popStack[Len(popStack)]]

\* _popUndoRedoRecord(popStack, pushStack): both stacks afterwards and the
\* returned record
_popUndoRedoRecord(popStack, pushStack) ==
    IF Len(popStack) = 0
    THEN [pop |-> popStack, push |-> pushStack, ret |-> Undefined]
    ELSE [pop |-> SubSeq(popStack, 1, Len(popStack) - 1),
          push |-> Append(pushStack, popStack[Len(popStack)]),
          ret |-> popStack[Len(popStack)]]

\* UndoStack.popUndoRedoRecord(isRedo): the stack afterwards and the
\* returned record
popUndoRedoRecord(stack, isRedo) ==
    IF ~isRedo
    THEN LET r == _popUndoRedoRecord(stack.undoStack, stack.redoStack)
         IN  [stack |-> [undoStack |-> r.pop, redoStack |-> r.push], ret |-> r.ret]
    ELSE LET r == _popUndoRedoRecord(stack.redoStack, stack.undoStack)
         IN  [stack |-> [undoStack |-> r.push, redoStack |-> r.pop], ret |-> r.ret]

\* ------------------------------------------------------------------------
\* font-controller: pushUndoRecord
\* ------------------------------------------------------------------------

\* iterateChangePaths(change, depth, prefix): the paths of length depth the
\* change reaches
RECURSIVE ChangePaths(_, _, _)
ChangePaths(change, depth, prefix) ==
    LET path == prefix \o (IF Has(change, "p") THEN change.p ELSE <<>>)
    IN  IF Len(path) >= depth THEN {SubSeq(path, 1, depth)}
        ELSE IF ~Has(change, "c") THEN {}
        ELSE UNION {ChangePaths(change.c[i], depth, path) : i \in 1..Len(change.c)}

collectChangePaths(change, depth) == ChangePaths(change, depth, <<>>)

collectGlyphNames(change) ==
    {item[2] : item \in {q \in collectChangePaths(change, 2) : q[1] = "glyphs"}}

\* pushUndoRecord with the assertion on the glyph of the change alone
FontController_pushUndoRecord_lax(stacks, change, rollbackChange, undoInfo) ==
    LET glyphNames == collectGlyphNames(change)
    IN  IF Cardinality(glyphNames) # 1
        THEN [stacks |-> stacks, err |-> TRUE]
        ELSE LET glyphName == CHOOSE g \in glyphNames : TRUE
                 stack == IF Has(stacks, glyphName) THEN stacks[glyphName]
                          ELSE NewUndoStack
                 undoRecord == [change |-> change,
                                rollbackChange |-> rollbackChange,
                                info |-> undoInfo]
             IN  [stacks |-> With(stacks, glyphName, pushUndoRecord(stack, undoRecord)),
                  err |-> FALSE]

\* FontController.pushUndoRecord(change, rollbackChange, undoInfo) on the map
\* undoStacks; err tells whether the assertion threw
FontController_pushUndoRecord(stacks, change, rollbackChange, undoInfo) ==
    LET glyphNames == collectGlyphNames(change)
        rbgn == collectGlyphNames(rollbackChange)
    IN  IF Cardinality(glyphNames) # 1 \/ Cardinality(rbgn) # 1 \/ glyphNames # rbgn
        THEN [stacks |-> stacks, err |-> TRUE]
        ELSE LET glyphName == CHOOSE g \in glyphNames : TRUE
                 stack == IF Has(stacks, glyphName) THEN stacks[glyphName]
                          ELSE NewUndoStack
                 undoRecord == [change |-> change,
                                rollbackChange |-> rollbackChange,
                                info |-> undoInfo]
             IN  [stacks |-> With(stacks, glyphName, pushUndoRecord(stack, undoRecord)),
                  err |-> FALSE]

\* ------------------------------------------------------------------------
\* utils: throttleCalls, and the timers of the event loop
\*
\* A timer is [id, session, n, change, deadline]: the closure setTimeout
\* was given sends `change', the n-th incremental change of edit session
\* `session'.  The timeout id null is written 0.
\* ------------------------------------------------------------------------

\* minTime of the throttled editIncremental, in ms
MinTime == 50

\* clearTimeout that leaves the timer in place
clearTimeout_none(tm, id) == tm

\* clearTimeout(id) on the set tm of pending timers
clearTimeout(tm, id) == {t \in tm : t.id # id}

\* throttleCalls without the setTimeout of its else branch
throttleCalls_noTimer(th, tm, nowv, freshID, session, n, item) ==
    LET tm1 == IF th.timeoutID # 0 THEN clearTimeout(tm, th.timeoutID) ELSE tm
    IN  IF nowv - th.lastTime > MinTime
        THEN [th |-> [lastTime |-> nowv, timeoutID |-> 0],
              timers |-> tm1, called |-> TRUE, ret |-> 0]
        ELSE [th |-> [lastTime |-> th.lastTime, timeoutID |-> 0],
              timers |-> tm1, called |-> FALSE, ret |-> 0]

\* one call of the function throttleCalls returns, at time nowv, on the
\* closure state th = [lastTime, timeoutID]; freshID is the id setTimeout
\* hands out.  called: whether func ran; ret: the value returned
throttleCalls(th, tm, nowv, freshID, session, n, item) ==
    LET tm1 == IF th.timeoutID # 0 THEN clearTimeout(tm, th.timeoutID) ELSE tm
    IN  IF nowv - th.lastTime > MinTime
        THEN [th |-> [lastTime |-> nowv, timeoutID |-> 0],
              timers |-> tm1, called |-> TRUE, ret |-> 0]
        ELSE [th |-> [lastTime |-> th.lastTime, timeoutID |-> freshID],
              timers |-> tm1 \cup {[id |-> freshID, session |-> session, n |-> n,
                                    change |-> item, deadline |-> nowv + MinTime]},
              called |-> FALSE, ret |-> freshID]

\* ------------------------------------------------------------------------
\* font-controller: GlyphEditContext
\* ------------------------------------------------------------------------

NoFinal ==
    [pc |-> "none", change |-> EmptyObj, rollback |-> EmptyObj,
     undoInfo |-> EmptyObj, broadcast |-> FALSE, error |-> FALSE]

\* new GlyphEditContext(fontController, glyphName, baseChangePath, senderID);
\* th is the closure of throttledEditIncremental, final and cancel are the
\* positions of its editFinal() and editCancel() calls
NewGlyphEditContext(glyphName, baseChangePath, senderID) ==
    [glyphName |-> glyphName,
     baseChangePath |-> baseChangePath,
     senderID |-> senderID,
     th |-> [lastTime |-> 0, timeoutID |-> 0],
     throttledID |-> 0,
     final |-> NoFinal,
     cancel |-> "none"]

\* what the remote receives from font.editIncremental(change)
IncrementalMsg(session, n, ch) ==
    [kind |-> "editIncremental", session |-> session, n |-> n, change |-> ch]

\* what the remote receives from font.editFinal(change, rollback, label, broadcast)
FinalMsg(session, ch, rb, label, broadcast) ==
    [kind |-> "editFinal", session |-> session, n |-> 0, change |-> ch,
     rollback |-> rb, label |-> label, broadcast |-> broadcast]

\* editIncremental without the clearTimeout of its else branch
editIncremental_noClear(c, tm, nowv, freshID, session, n, ch, mayDrop) ==
    LET cons == consolidateChanges(AsArray(ch), c.baseChangePath)
    IN  IF mayDrop
        THEN LET r == throttleCalls(c.th, tm, nowv, freshID, session, n, cons)
             IN  [ctx |-> [c EXCEPT !.th = r.th, !.throttledID = r.ret],
                  timers |-> r.timers,
                  sent |-> IF r.called THEN <<IncrementalMsg(session, n, cons)>>
                           ELSE <<>>]
        ELSE [ctx |-> c,
              timers |-> tm,
              sent |-> <<IncrementalMsg(session, n, cons)>>]

\* the part of GlyphEditContext.editIncremental(change, mayDrop) that runs
\* once glyphChanged() has returned, on context c at time nowv
editIncremental(c, tm, nowv, freshID, session, n, ch, mayDrop) ==
    LET cons == consolidateChanges(AsArray(ch), c.baseChangePath)
    IN  IF mayDrop
        THEN LET r == throttleCalls(c.th, tm, nowv, freshID, session, n, cons)
             IN  [ctx |-> [c EXCEPT !.th = r.th, !.throttledID = r.ret],
                  timers |-> r.timers,
                  sent |-> IF r.called THEN <<IncrementalMsg(session, n, cons)>>
                           ELSE <<>>]
        ELSE [ctx |-> c,
              timers |-> clearTimeout(tm, c.throttledID),
              sent |-> <<IncrementalMsg(session, n, cons)>>]

\* ------------------------------------------------------------------------
\* Bounds
\* ------------------------------------------------------------------------

\* collectors created in one recording, the root included
MaxCollectors == 3

\* addChange / addRollbackChange pairs in one recording
MaxOps == 4

\* records held by one UndoStack
MaxStack == 3

\* distinct undo records offered to an UndoStack
NumRecords == 2

\* edit sessions started
MaxSessions == 1

\* incremental changes the edit functions send, all sessions together
MaxChanges == 2

\* rejected attempts to start an edit during a running one
MaxThrown == 1

\* records on the undo and redo stack of one glyph of the font
MaxFontStack == 1

\* segments of a path handed to the functions of changes.js
MaxPathLen == 2

\* changes in a list handed to consolidateChanges
MaxListLen == 2

\* entries in a list of a collector handed to concat
MaxEntries == 2

\* collectors handed to concat as its arguments
MaxOperands == 2

\* the clock advances in steps of TimeStep ms, freely up to MaxTime and
\* beyond it only while a timer is waiting
TimeStep == 25
MaxTime == 125

\* ------------------------------------------------------------------------
\* State
\* ------------------------------------------------------------------------

VARIABLES
    arrays,     \* ChangeCollector: the heap of shared change arrays
    colls,      \* ChangeCollector: the collectors; colls[1] is the root
    work,       \* the document being edited while its changes are recorded
    pending,    \* the inverse of the last addChange, not yet recorded
    opCount,    \* number of addChange calls so far
    ustack,     \* UndoStack: an instance of the class
    lastCall,   \* UndoStack: the last call made on ustack and its result
    prevCall,   \* UndoStack: the call made before lastCall
    now,        \* Date.now()
    glyphEditingDonePromise,  \* SceneController: whether the promise exists
    cancelGlyphEditing,       \* SceneController: the reason, "" if undefined
    pc,         \* where _editGlyphOrInstance of the running edit is
    edit,       \* the locals of the running _editGlyphOrInstanceUnchecked
    inc,        \* the arguments of the editIncremental call in progress
    ctx,        \* the GlyphEditContext of each edit session so far
    timers,     \* the pending setTimeout timers
    nextTimerID,    \* the id the next setTimeout returns
    remote,     \* per session: what the remote font has received, in order
    notifications,  \* per session: what the edit listeners were told, in order
    docs,       \* the local glyphs (the edit subjects)
    selection,  \* SceneController.selection
    undoStacks, \* FontController.undoStacks: glyph name -> UndoStack
    thrown,     \* number of "still running" errors thrown
    dialogs,    \* number of "could not be saved" dialogs shown
    hist,       \* per session: what was generated and how it went
    glyphsPromiseCache,  \* FontController: glyph name -> the loaded glyph
    glyphUsedBy,    \* FontController.glyphUsedBy
    glyphMadeOf,    \* FontController.glyphMadeOf
    rootObject,     \* FontController._rootObject, without its glyphs
    lastFontCall,   \* FontController: the last call made and what came of it
    fnCall,     \* changes.js: the last function called, its arguments and result
    load,       \* FontController.loadGlyphs: the locals of the call and its promise
    instanceCache,      \* FontController._glyphInstancePromiseCache, oldest first
    instanceCacheKeys,  \* FontController._glyphInstancePromiseCacheKeys
    instancePending,    \* the getGlyphInstance calls awaiting an evicted item
    fetch,      \* FontController.getGlyph: the cache of promises, the remote
                \* requests made, the promises settled and the calls so far
    throttle    \* throttleCalls: the closure, the timers, the clock and the
                \* times func ran at

collVars == <<arrays, colls, work, pending, opCount>>

undoVars == <<ustack, lastCall, prevCall>>

\* the edit sessions, but for the undo stacks they push to
sessionVars ==
    <<now, glyphEditingDonePromise, cancelGlyphEditing, pc, edit, inc, ctx, timers,
      nextTimerID, remote, notifications, docs, selection, thrown, dialogs, hist>>

editVars ==
    <<now, glyphEditingDonePromise, cancelGlyphEditing, pc, edit, inc, ctx, timers,
      nextTimerID, remote, notifications, docs, selection, undoStacks, thrown,
      dialogs, hist>>

fontVars == <<glyphsPromiseCache, glyphUsedBy, glyphMadeOf, rootObject, lastFontCall>>

callVars == <<fnCall>>

loadVars == <<load>>

instVars == <<instanceCache, instanceCacheKeys, instancePending>>

fetchVars == <<fetch>>

throttleVars == <<throttle>>

vars ==
    <<arrays, colls, work, pending, opCount, ustack, lastCall, prevCall,
      now, glyphEditingDonePromise, cancelGlyphEditing, pc, edit, inc, ctx, timers,
      nextTimerID, remote, notifications, docs, selection, undoStacks, thrown,
      dialogs, hist, glyphsPromiseCache, glyphUsedBy, glyphMadeOf, rootObject,
      lastFontCall, fnCall, load, instanceCache, instanceCacheKeys,
      instancePending, fetch, throttle>>

\* ------------------------------------------------------------------------
\* Recording an edit with a ChangeCollector and its sub-collectors
\* ------------------------------------------------------------------------

\* the document an edit starts from
OrigDoc ==
    [a |-> [c |-> [k |-> Num(0)], k |-> Num(0)],
     b |-> EmptyObj,
     k |-> Num(0)]

\* the keys an edit assigns or deletes
EditKeys == {"k", "j"}

\* the paths handed to subCollector
SubPaths == {<<"a">>, <<"b">>, <<"c">>, <<"a", "c">>}

NoPending == [id |-> 0, f |-> "", a |-> <<>>]

Heap == [arrays |-> arrays, colls |-> colls]

\* the path of a collector from the root of the document
RECURSIVE AbsPath(_, _)
AbsPath(cs, id) ==
    IF cs[id].parent = 0 THEN cs[id].path
    ELSE AbsPath(cs, cs[id].parent) \o cs[id].path

\* whether path leads to an object of doc
RECURSIVE Resolves(_, _)
Resolves(doc, path) ==
    IF path = <<>> THEN ~Has(doc, "num")
    ELSE Has(doc, Head(path)) /\ Resolves(doc[Head(path)], Tail(path))

RECURSIVE SubjectAt(_, _)
SubjectAt(doc, path) ==
    IF path = <<>> THEN doc ELSE SubjectAt(doc[Head(path)], Tail(path))

InitCollector ==
    /\ arrays = <<>>
    /\ colls = <<NewCollector(0, <<>>)>>
    /\ work = OrigDoc
    /\ pending = NoPending
    /\ opCount = 0

\* collector.subCollector(...path)
SubCollector(parent, path) ==
    /\ Len(colls) < MaxCollectors
    /\ pending.id = 0
    /\ Resolves(work, AbsPath(colls, parent) \o path)
    /\ colls' = Append(colls, NewCollector(parent, path))
    /\ UNCHANGED <<arrays, work, pending, opCount>>

\* the edit assigns or deletes key of the subject of collector id and
\* records it with collector.addChange(func, ...args)
AddChange(id, func, key) ==
    LET subject == SubjectAt(work, AbsPath(colls, id))
        args == IF func = "=" THEN <<key, Num(opCount + 1)>> ELSE <<key>>
        st == addChange(Heap, id, func, args)
    IN  /\ opCount < MaxOps
        /\ pending.id = 0
        /\ func = "d" => Has(subject, key)
        /\ work' = ApplyAtPath(work, AbsPath(colls, id),
                               [f |-> func, a |-> args]).doc
        /\ pending' = IF Has(subject, key)
                      THEN [id |-> id, f |-> "=", a |-> <<key, subject[key]>>]
                      ELSE [id |-> id, f |-> "d", a |-> <<key>>]
        /\ arrays' = st.arrays
        /\ colls' = st.colls
        /\ opCount' = opCount + 1

\* collector.addRollbackChange(func, ...args) with the inverse of the
\* operation just recorded
AddRollbackChange ==
    LET st == addRollbackChange(Heap, pending.id, pending.f, pending.a)
    IN  /\ pending.id # 0
        /\ arrays' = st.arrays
        /\ colls' = st.colls
        /\ pending' = NoPending
        /\ UNCHANGED <<work, opCount>>

\* at most so many collectors, so many additions in any order, and so many
\* additions in pairs
MaxShapeCollectors == 4

MaxShapeOps == 2

MaxPairOps == 6

\* the paths handed to subCollector
ShapePaths == {<<"a">>, <<"b">>}

\* collector.subCollector(...path), whatever the document
ShapeSubCollector(parent, path) ==
    /\ Len(colls) < MaxShapeCollectors
    /\ pending = NoPending
    /\ colls' = Append(colls, NewCollector(parent, path))
    /\ UNCHANGED <<arrays, work, pending, opCount>>

\* collector.addChange("=", key, 0), whatever the document
ShapeAddChange(id, key) ==
    LET st == addChange(Heap, id, "=", <<key, Num(0)>>)
    IN  /\ opCount < MaxShapeOps
        /\ arrays' = st.arrays
        /\ colls' = st.colls
        /\ opCount' = opCount + 1
        /\ UNCHANGED <<work, pending>>

\* collector.addRollbackChange("=", key, 0), whatever the document
ShapeAddRollbackChange(id, key) ==
    LET st == addRollbackChange(Heap, id, "=", <<key, Num(0)>>)
    IN  /\ opCount < MaxShapeOps
        /\ arrays' = st.arrays
        /\ colls' = st.colls
        /\ opCount' = opCount + 1
        /\ UNCHANGED <<work, pending>>

ShapeStep ==
    \/ \E parent \in 1..Len(colls), path \in ShapePaths : ShapeSubCollector(parent, path)
    \/ \E id \in 1..Len(colls) : ShapeAddChange(id, "k")
    \/ \E id \in 1..Len(colls) : ShapeAddRollbackChange(id, "k")

\* collector.addChange("=", key, 0), to be followed by the
\* addRollbackChange of the collector
PairAddChange(id, key) ==
    LET st == addChange(Heap, id, "=", <<key, Num(0)>>)
    IN  /\ opCount < MaxPairOps
        /\ pending = NoPending
        /\ arrays' = st.arrays
        /\ colls' = st.colls
        /\ opCount' = opCount + 1
        /\ pending' = [id |-> id, f |-> "=", a |-> <<key, Num(0)>>]
        /\ UNCHANGED work

\* the collector.addRollbackChange("=", key, 0) that follows an addChange
PairAddRollbackChange ==
    LET st == addRollbackChange(Heap, pending.id, pending.f, pending.a)
    IN  /\ pending # NoPending
        /\ arrays' = st.arrays
        /\ colls' = st.colls
        /\ opCount' = opCount + 1
        /\ pending' = NoPending
        /\ UNCHANGED work

PairStep ==
    \/ \E parent \in 1..Len(colls), path \in ShapePaths : ShapeSubCollector(parent, path)
    \/ \E id \in 1..Len(colls) : PairAddChange(id, "k")
    \/ PairAddRollbackChange

CollectorStep ==
    \/ \E parent \in 1..Len(colls), path \in SubPaths : SubCollector(parent, path)
    \/ \E id \in 1..Len(colls), func \in {"=", "d"}, key \in EditKeys :
          AddChange(id, func, key)
    \/ AddRollbackChange

\* ------------------------------------------------------------------------
\* Calls on one UndoStack
\* ------------------------------------------------------------------------

\* the record pushUndoRecord of the font controller builds for edit n of
\* glyph "A"
UndoRecord(n) ==
    [change |-> [p |-> <<"glyphs", "A">>, f |-> "=", a |-> <<"k", Num(n)>>],
     rollbackChange |-> [p |-> <<"glyphs", "A">>, f |-> "=", a |-> <<"k", Num(n - 1)>>],
     info |-> [label |-> n, undoSelection |-> n - 1, redoSelection |-> n]]

NoCall ==
    [op |-> "none", isRedo |-> FALSE, rec |-> Undefined, ret |-> Undefined,
     before |-> NewUndoStack]

InitUndo ==
    /\ ustack = NewUndoStack
    /\ lastCall = NoCall
    /\ prevCall = NoCall

PushUndoRecord(n) ==
    /\ Len(ustack.undoStack) < MaxStack
    /\ ustack' = pushUndoRecord(ustack, UndoRecord(n))
    /\ lastCall' = [op |-> "push", isRedo |-> FALSE, rec |-> UndoRecord(n),
                    ret |-> Undefined, before |-> ustack]
    /\ prevCall' = lastCall

PopUndoRedoRecord(isRedo) ==
    LET r == popUndoRedoRecord(ustack, isRedo)
    IN  /\ ustack' = r.stack
        /\ lastCall' = [op |-> "pop", isRedo |-> isRedo, rec |-> Undefined,
                        ret |-> r.ret, before |-> ustack]
        /\ prevCall' = lastCall

GetTopUndoRedoRecord(isRedo) ==
    /\ ustack' = ustack
    /\ lastCall' = [op |-> "top", isRedo |-> isRedo, rec |-> Undefined,
                    ret |-> getTopUndoRedoRecord(ustack, isRedo), before |-> ustack]
    /\ prevCall' = lastCall

UndoStep ==
    \/ \E n \in 1..NumRecords : PushUndoRecord(n)
    \/ \E isRedo \in BOOLEAN : PopUndoRedoRecord(isRedo)
    \/ \E isRedo \in BOOLEAN : GetTopUndoRedoRecord(isRedo)

\* ------------------------------------------------------------------------
\* Edit sessions: SceneController._editGlyphOrInstance, the edit context
\* and the event loop
\* ------------------------------------------------------------------------

GlyphNames == {"A"}

\* the reasons handed to cancelEditing
Reasons == {"reloaded"}

NoEdit == [glyphName |-> "", initialSelection |-> 0, startSubject |-> EmptyObj]

NoInc == [n |-> 0, change |-> EmptyObj, mayDrop |-> FALSE]

\* the running (or last) session
Cur == Len(hist)

\* the value the edit function writes with its n-th change in session s
EditValue(s, n) == 10 * s + n

\* the number of changes the edit functions of the sessions in h have made:
\* those sent with sendIncrementalChange and those made without sending
RECURSIVE Generated(_)
Generated(h) ==
    IF h = <<>> THEN 0
    ELSE Len(SelectSeq(Head(h).gen, LAMBDA e : e.byEditFunc))
         + (IF Head(h).unsent THEN 1 ELSE 0) + Generated(Tail(h))

InitEdit ==
    /\ now = MinTime + TimeStep
    /\ glyphEditingDonePromise = FALSE
    /\ cancelGlyphEditing = ""
    /\ pc = "idle"
    /\ edit = NoEdit
    /\ inc = NoInc
    /\ ctx = <<>>
    /\ timers = {}
    /\ nextTimerID = 1
    /\ remote = <<>>
    /\ notifications = <<>>
    /\ docs = [g \in GlyphNames |-> [k |-> Num(0)]]
    /\ selection = 0
    /\ undoStacks = EmptyObj
    /\ thrown = 0
    /\ dialogs = 0
    /\ hist = <<>>

\* the ChangeCollector the edit function returns: one assignment and its
\* inverse if the subject changed, nothing otherwise
EditChanges(startSubject, subject) ==
    LET st0 == [arrays |-> <<>>, colls |-> <<NewCollector(0, <<>>)>>]
    IN  IF subject = startSubject THEN st0
        ELSE addRollbackChange(addChange(st0, 1, "=", <<"k", subject.k>>),
                               1, "=", <<"k", startSubject.k>>)

\* the finally block of _editGlyphOrInstance
EditingDone ==
    /\ glyphEditingDonePromise' = FALSE
    /\ cancelGlyphEditing' = ""
    /\ pc' = "idle"
    /\ edit' = NoEdit

\* _editGlyphOrInstance is called while no edit is running: it runs up to
\* the first await of _editGlyphOrInstanceUnchecked; at most `limit' edits
\* are started
StartEditUpTo(g, limit) ==
    /\ ~glyphEditingDonePromise
    /\ Len(hist) < limit
    /\ glyphEditingDonePromise' = TRUE
    /\ pc' = "begin"
    /\ edit' = [NoEdit EXCEPT !.glyphName = g]
    /\ hist' = Append(hist, [gen |-> <<>>, unsent |-> FALSE, cancelRequested |-> FALSE,
                             hadChange |-> FALSE, outcome |-> "running",
                             rejected |-> FALSE, glyphName |-> g,
                             overtaken |-> FALSE])
    /\ remote' = Append(remote, <<>>)
    /\ notifications' = Append(notifications, <<>>)
    /\ UNCHANGED <<now, cancelGlyphEditing, inc, ctx, timers, nextTimerID, docs,
                   selection, undoStacks, thrown, dialogs>>

StartEdit(g) == StartEditUpTo(g, MaxSessions)

\* EditRejected with the throw inside the try block, so that the finally
\* block runs
EditRejected_finally ==
    /\ glyphEditingDonePromise
    /\ thrown < MaxThrown
    /\ thrown' = thrown + 1
    /\ glyphEditingDonePromise' = FALSE
    /\ cancelGlyphEditing' = ""
    /\ UNCHANGED <<now, pc, edit, inc, ctx, timers, nextTimerID, remote,
                   notifications, docs, selection, undoStacks, dialogs, hist>>

\* _editGlyphOrInstance is called while an edit is running: it throws
EditRejected ==
    /\ glyphEditingDonePromise
    /\ thrown < MaxThrown
    /\ thrown' = thrown + 1
    /\ UNCHANGED <<now, glyphEditingDonePromise, cancelGlyphEditing, pc, edit, inc,
                   ctx, timers, nextTimerID, remote, notifications, docs, selection,
                   undoStacks, dialogs, hist>>

\* getGlyph has returned: getGlyphEditContext creates the context and its
\* setup() notifies editBegin; then the edit function starts
BeginEdit ==
    /\ pc = "begin"
    /\ ctx' = Append(ctx, NewGlyphEditContext(edit.glyphName,
                                              <<"glyphs", edit.glyphName>>, Cur))
    /\ notifications' = [notifications EXCEPT ![Cur] = Append(@, "editBegin")]
    /\ edit' = [edit EXCEPT !.initialSelection = selection,
                            !.startSubject = docs[edit.glyphName]]
    /\ pc' = "editFunc"
    /\ UNCHANGED <<now, glyphEditingDonePromise, cancelGlyphEditing, inc, timers,
                   nextTimerID, remote, docs, selection, undoStacks, thrown,
                   dialogs, hist>>

\* the edit function changes the subject and calls
\* sendIncrementalChange(change, mayDrop); editIncremental awaits glyphChanged
SendIncrementalChange(mayDrop) ==
    LET n == Len(hist[Cur].gen) + 1
        v == EditValue(Cur, n)
    IN  /\ pc = "editFunc"
        /\ Generated(hist) < MaxChanges
        /\ docs' = [docs EXCEPT ![edit.glyphName] = With(@, "k", Num(v))]
        /\ selection' = v
        /\ inc' = [n |-> n, change |-> [f |-> "=", a |-> <<"k", Num(v)>>],
                   mayDrop |-> mayDrop]
        /\ hist' = [hist EXCEPT ![Cur].gen = Append(@,
                        [n |-> n, change |-> [f |-> "=", a |-> <<"k", Num(v)>>],
                         mayDrop |-> mayDrop, byEditFunc |-> TRUE])]
        /\ pc' = "incremental"
        /\ UNCHANGED <<now, glyphEditingDonePromise, cancelGlyphEditing, edit, ctx,
                       timers, nextTimerID, remote, notifications, undoStacks,
                       thrown, dialogs>>

\* editIncremental goes on after glyphChanged: it consolidates, sends or
\* throttles, notifies the listeners and returns to the edit function
IncrementalSend ==
    LET r == editIncremental(ctx[Cur], timers, now, nextTimerID, Cur,
                             inc.n, inc.change, inc.mayDrop)
    IN  /\ pc = "incremental"
        /\ ctx' = [ctx EXCEPT ![Cur] = r.ctx]
        /\ timers' = r.timers
        /\ nextTimerID' = IF \E t \in r.timers : t.id = nextTimerID
                          THEN nextTimerID + 1 ELSE nextTimerID
        /\ remote' = [remote EXCEPT ![Cur] = @ \o r.sent]
        /\ notifications' = [notifications EXCEPT ![Cur] = Append(@, "editIncremental")]
        /\ inc' = NoInc
        /\ pc' = "editFunc"
        /\ UNCHANGED <<now, glyphEditingDonePromise, cancelGlyphEditing, edit, docs,
                       selection, undoStacks, thrown, dialogs, hist>>

\* EditFuncReturn with the final commit sent for an edit without a change too
EditFuncReturn_commitNoop(mutate, broadcast) ==
    LET g == edit.glyphName
        n == Len(hist[Cur].gen) + 1
        subject == IF mutate THEN With(docs[g], "k", Num(EditValue(Cur, n)))
                   ELSE docs[g]
        sel == IF mutate THEN EditValue(Cur, n) ELSE selection
        changes == EditChanges(edit.startSubject, subject)
        undoInfo == [label |-> Cur, undoSelection |-> edit.initialSelection,
                     redoSelection |-> sel]
        c == ctx[Cur]
        consChange == consolidateChanges(AsArray(getChange(changes, 1)),
                                         c.baseChangePath)
        consRollback == consolidateChanges(AsArray(getRollbackChange(changes, 1)),
                                           c.baseChangePath)
    IN  /\ pc = "editFunc"
        /\ mutate => Generated(hist) < MaxChanges
        /\ IF hasChange(changes, 1)
           THEN IF cancelGlyphEditing = ""
                THEN \* editContext.editFinal(...) is called and not awaited
                     /\ IF broadcast
                        THEN /\ ctx' = [ctx EXCEPT ![Cur].final =
                                    [pc |-> "glyphChanged",
                                     change |-> getChange(changes, 1),
                                     rollback |-> getRollbackChange(changes, 1),
                                     undoInfo |-> undoInfo, broadcast |-> broadcast,
                                     error |-> FALSE]]
                             /\ remote' = remote
                        ELSE /\ ctx' = [ctx EXCEPT ![Cur].final =
                                    [pc |-> "remote", change |-> consChange,
                                     rollback |-> consRollback,
                                     undoInfo |-> undoInfo, broadcast |-> broadcast,
                                     error |-> FALSE]]
                             /\ remote' = [remote EXCEPT ![Cur] = Append(@,
                                    FinalMsg(Cur, consChange, consRollback,
                                             undoInfo.label, broadcast))]
                     /\ docs' = [docs EXCEPT ![g] = subject]
                     /\ selection' = sel
                     /\ hist' = [hist EXCEPT ![Cur].hadChange = TRUE,
                                             ![Cur].unsent = mutate,
                                             ![Cur].outcome = "final"]
                     /\ inc' = NoInc
                     /\ EditingDone
                ELSE \* applyChange(editSubject, rollbackChange), then
                     \* await editContext.editIncremental(rollbackChange, false)
                     /\ docs' = [docs EXCEPT ![g] =
                                    applyChange(subject, getRollbackChange(changes, 1)).doc]
                     /\ selection' = sel
                     /\ inc' = [n |-> n, change |-> getRollbackChange(changes, 1),
                                mayDrop |-> FALSE]
                     /\ hist' = [hist EXCEPT ![Cur].hadChange = TRUE,
                                             ![Cur].unsent = mutate,
                                             ![Cur].gen = Append(@,
                                                 [n |-> n,
                                                  change |-> getRollbackChange(changes, 1),
                                                  mayDrop |-> FALSE,
                                                  byEditFunc |-> FALSE])]
                     /\ pc' = "rollbackInc"
                     /\ UNCHANGED <<glyphEditingDonePromise, cancelGlyphEditing, edit,
                                    ctx, remote>>
           ELSE \* no change: the selection is put back, editCancel() is called
                /\ selection' = edit.initialSelection
                /\ ctx' = [ctx EXCEPT ![Cur].cancel = "glyphChanged"]
                /\ hist' = [hist EXCEPT ![Cur].unsent = mutate,
                                        ![Cur].outcome = "noop"]
                /\ inc' = NoInc
                /\ EditingDone
                /\ docs' = docs
                /\ remote' = [remote EXCEPT ![Cur] = Append(@,
                       FinalMsg(Cur, consChange, consRollback,
                                undoInfo.label, broadcast))]
        /\ UNCHANGED <<now, timers, nextTimerID, notifications, undoStacks, thrown,
                       dialogs>>

\* the edit function returns (after a last change of the subject if mutate);
\* _editGlyphOrInstanceUnchecked runs on to its next await or to its end
EditFuncReturn(mutate, broadcast) ==
    LET g == edit.glyphName
        n == Len(hist[Cur].gen) + 1
        subject == IF mutate THEN With(docs[g], "k", Num(EditValue(Cur, n)))
                   ELSE docs[g]
        sel == IF mutate THEN EditValue(Cur, n) ELSE selection
        changes == EditChanges(edit.startSubject, subject)
        undoInfo == [label |-> Cur, undoSelection |-> edit.initialSelection,
                     redoSelection |-> sel]
        c == ctx[Cur]
        consChange == consolidateChanges(AsArray(getChange(changes, 1)),
                                         c.baseChangePath)
        consRollback == consolidateChanges(AsArray(getRollbackChange(changes, 1)),
                                           c.baseChangePath)
    IN  /\ pc = "editFunc"
        /\ mutate => Generated(hist) < MaxChanges
        /\ IF hasChange(changes, 1)
           THEN IF cancelGlyphEditing = ""
                THEN \* editContext.editFinal(...) is called and not awaited
                     /\ IF broadcast
                        THEN /\ ctx' = [ctx EXCEPT ![Cur].final =
                                    [pc |-> "glyphChanged",
                                     change |-> getChange(changes, 1),
                                     rollback |-> getRollbackChange(changes, 1),
                                     undoInfo |-> undoInfo, broadcast |-> broadcast,
                                     error |-> FALSE]]
                             /\ remote' = remote
                        ELSE /\ ctx' = [ctx EXCEPT ![Cur].final =
                                    [pc |-> "remote", change |-> consChange,
                                     rollback |-> consRollback,
                                     undoInfo |-> undoInfo, broadcast |-> broadcast,
                                     error |-> FALSE]]
                             /\ remote' = [remote EXCEPT ![Cur] = Append(@,
                                    FinalMsg(Cur, consChange, consRollback,
                                             undoInfo.label, broadcast))]
                     /\ docs' = [docs EXCEPT ![g] = subject]
                     /\ selection' = sel
                     /\ hist' = [hist EXCEPT ![Cur].hadChange = TRUE,
                                             ![Cur].unsent = mutate,
                                             ![Cur].outcome = "final"]
                     /\ inc' = NoInc
                     /\ EditingDone
                ELSE \* applyChange(editSubject, rollbackChange), then
                     \* await editContext.editIncremental(rollbackChange, false)
                     /\ docs' = [docs EXCEPT ![g] =
                                    applyChange(subject, getRollbackChange(changes, 1)).doc]
                     /\ selection' = sel
                     /\ inc' = [n |-> n, change |-> getRollbackChange(changes, 1),
                                mayDrop |-> FALSE]
                     /\ hist' = [hist EXCEPT ![Cur].hadChange = TRUE,
                                             ![Cur].unsent = mutate,
                                             ![Cur].gen = Append(@,
                                                 [n |-> n,
                                                  change |-> getRollbackChange(changes, 1),
                                                  mayDrop |-> FALSE,
                                                  byEditFunc |-> FALSE])]
                     /\ pc' = "rollbackInc"
                     /\ UNCHANGED <<glyphEditingDonePromise, cancelGlyphEditing, edit,
                                    ctx, remote>>
           ELSE \* no change: the selection is put back, editCancel() is called
                /\ selection' = edit.initialSelection
                /\ ctx' = [ctx EXCEPT ![Cur].cancel = "glyphChanged"]
                /\ hist' = [hist EXCEPT ![Cur].unsent = mutate,
                                        ![Cur].outcome = "noop"]
                /\ inc' = NoInc
                /\ EditingDone
                /\ UNCHANGED <<docs, remote>>
        /\ UNCHANGED <<now, timers, nextTimerID, notifications, undoStacks, thrown,
                       dialogs>>

\* EditFuncThrows with a catch block that leaves the selection as it is
EditFuncThrows_keepSelection(mutate) ==
    LET g == edit.glyphName
        n == Len(hist[Cur].gen) + 1
    IN  /\ pc = "editFunc"
        /\ mutate => Generated(hist) < MaxChanges
        /\ docs' = [docs EXCEPT ![g] = IF mutate THEN With(@, "k", Num(EditValue(Cur, n)))
                                       ELSE @]
        /\ selection' = IF mutate THEN EditValue(Cur, n) ELSE selection
        /\ ctx' = [ctx EXCEPT ![Cur].cancel = "glyphChanged"]
        /\ hist' = [hist EXCEPT ![Cur].unsent = mutate,
                                ![Cur].outcome = "threw",
                                ![Cur].rejected = TRUE]
        /\ inc' = NoInc
        /\ EditingDone
        /\ UNCHANGED <<now, timers, nextTimerID, remote, notifications, undoStacks,
                       thrown, dialogs>>

\* the edit function throws (after a last change of the subject if mutate):
\* the catch block puts the selection back, calls editCancel() without
\* awaiting it and throws the error again; the finally block of
\* _editGlyphOrInstance runs and the promise of the caller is rejected
EditFuncThrows(mutate) ==
    LET g == edit.glyphName
        n == Len(hist[Cur].gen) + 1
    IN  /\ pc = "editFunc"
        /\ mutate => Generated(hist) < MaxChanges
        /\ docs' = [docs EXCEPT ![g] = IF mutate THEN With(@, "k", Num(EditValue(Cur, n)))
                                       ELSE @]
        /\ selection' = edit.initialSelection
        /\ ctx' = [ctx EXCEPT ![Cur].cancel = "glyphChanged"]
        /\ hist' = [hist EXCEPT ![Cur].unsent = mutate,
                                ![Cur].outcome = "threw",
                                ![Cur].rejected = TRUE]
        /\ inc' = NoInc
        /\ EditingDone
        /\ UNCHANGED <<now, timers, nextTimerID, remote, notifications, undoStacks,
                       thrown, dialogs>>

\* RollbackIncrementalSend with editIncremental(rollbackChange, true)
RollbackIncrementalSend_droppable ==
    LET r == editIncremental(ctx[Cur], timers, now, nextTimerID, Cur,
                             inc.n, inc.change, TRUE)
    IN  /\ pc = "rollbackInc"
        /\ ctx' = [ctx EXCEPT ![Cur] = [r.ctx EXCEPT !.cancel = "glyphChanged"]]
        /\ timers' = r.timers
        /\ nextTimerID' = nextTimerID + 1
        /\ remote' = [remote EXCEPT ![Cur] = @ \o r.sent]
        /\ notifications' = [notifications EXCEPT ![Cur] = Append(@, "editIncremental")]
        /\ dialogs' = dialogs + 1
        /\ hist' = [hist EXCEPT ![Cur].outcome = "cancelled"]
        /\ inc' = NoInc
        /\ EditingDone
        /\ UNCHANGED <<now, docs, selection, undoStacks, thrown>>

\* the editIncremental of the rollback goes on after glyphChanged; then
\* editCancel() is called, the dialog is shown and the edit is over
RollbackIncrementalSend ==
    LET r == editIncremental(ctx[Cur], timers, now, nextTimerID, Cur,
                             inc.n, inc.change, inc.mayDrop)
    IN  /\ pc = "rollbackInc"
        /\ ctx' = [ctx EXCEPT ![Cur] = [r.ctx EXCEPT !.cancel = "glyphChanged"]]
        /\ timers' = r.timers
        /\ remote' = [remote EXCEPT ![Cur] = @ \o r.sent]
        /\ notifications' = [notifications EXCEPT ![Cur] = Append(@, "editIncremental")]
        /\ dialogs' = dialogs + 1
        /\ hist' = [hist EXCEPT ![Cur].outcome = "cancelled"]
        /\ inc' = NoInc
        /\ EditingDone
        /\ UNCHANGED <<now, nextTimerID, docs, selection, undoStacks, thrown>>

\* editFinal goes on after glyphChanged: it consolidates and calls the
\* remote editFinal
FinalGlyphChanged(s) ==
    LET f == ctx[s].final
        consChange == consolidateChanges(AsArray(f.change), ctx[s].baseChangePath)
        consRollback == consolidateChanges(AsArray(f.rollback), ctx[s].baseChangePath)
    IN  /\ f.pc = "glyphChanged"
        /\ ctx' = [ctx EXCEPT ![s].final = [f EXCEPT !.pc = "remote",
                                                     !.change = consChange,
                                                     !.rollback = consRollback]]
        /\ remote' = [remote EXCEPT ![s] = Append(@,
                          FinalMsg(s, consChange, consRollback,
                                   f.undoInfo.label, f.broadcast))]
        /\ UNCHANGED <<now, glyphEditingDonePromise, cancelGlyphEditing, pc, edit, inc,
                       timers, nextTimerID, notifications, docs, selection,
                       undoStacks, thrown, dialogs, hist>>

\* FinalRemoteReturn without the editEnd notification
FinalRemoteReturn_noEnd(s, error) ==
    /\ ctx[s].final.pc = "remote"
    /\ ctx' = [ctx EXCEPT ![s].final.pc = "notified", ![s].final.error = error]
    /\ notifications' = [notifications EXCEPT ![s] = Append(@, "editFinal")]
    /\ UNCHANGED <<now, glyphEditingDonePromise, cancelGlyphEditing, pc, edit, inc,
                   timers, nextTimerID, remote, docs, selection, undoStacks, thrown,
                   dialogs, hist>>

\* the remote editFinal returns, with an error or not; editFinal notifies
\* the listeners of editFinal and editEnd
FinalRemoteReturn(s, error) ==
    /\ ctx[s].final.pc = "remote"
    /\ ctx' = [ctx EXCEPT ![s].final.pc = "notified", ![s].final.error = error]
    /\ notifications' = [notifications EXCEPT ![s] = @ \o <<"editFinal", "editEnd">>]
    /\ UNCHANGED <<now, glyphEditingDonePromise, cancelGlyphEditing, pc, edit, inc,
                   timers, nextTimerID, remote, docs, selection, undoStacks, thrown,
                   dialogs, hist>>

\* the last statement of editFinal: fontController.pushUndoRecord(...)
FinalPushUndoRecord(s) ==
    LET f == ctx[s].final
    IN  /\ f.pc = "notified"
        /\ undoStacks' = FontController_pushUndoRecord(undoStacks, f.change,
                                                       f.rollback, f.undoInfo).stacks
        /\ ctx' = [ctx EXCEPT ![s].final.pc = "done"]
        /\ UNCHANGED <<now, glyphEditingDonePromise, cancelGlyphEditing, pc, edit, inc,
                       timers, nextTimerID, remote, notifications, docs, selection,
                       thrown, dialogs, hist>>

\* editCancel goes on after glyphChanged: it notifies editEnd
CancelGlyphChanged(s) ==
    /\ ctx[s].cancel = "glyphChanged"
    /\ ctx' = [ctx EXCEPT ![s].cancel = "done"]
    /\ notifications' = [notifications EXCEPT ![s] = Append(@, "editEnd")]
    /\ UNCHANGED <<now, glyphEditingDonePromise, cancelGlyphEditing, pc, edit, inc,
                   timers, nextTimerID, remote, docs, selection, undoStacks, thrown,
                   dialogs, hist>>

\* SceneController.cancelEditing(reason)
CancelEditing(reason) ==
    /\ IF glyphEditingDonePromise
       THEN /\ cancelGlyphEditing' = reason
            /\ hist' = [hist EXCEPT ![Cur].cancelRequested = TRUE]
       ELSE UNCHANGED <<cancelGlyphEditing, hist>>
    /\ UNCHANGED <<now, glyphEditingDonePromise, pc, edit, inc, ctx, timers,
                   nextTimerID, remote, notifications, docs, selection, undoStacks,
                   thrown, dialogs>>

\* time passes; the clock is read by the throttled editIncremental and by
\* the timers only
Tick ==
    /\ \/ now < MaxTime /\ pc \in {"editFunc", "incremental"}
       \/ \E t \in timers : t.deadline > now
    /\ now' = now + TimeStep
    /\ UNCHANGED <<glyphEditingDonePromise, cancelGlyphEditing, pc, edit, inc, ctx,
                   timers, nextTimerID, remote, notifications, docs, selection,
                   undoStacks, thrown, dialogs, hist>>

\* the event loop runs the callback of a timer that is due: the closure of
\* throttleCalls resets its timeoutID and calls func
TimerFire(t) ==
    /\ t \in timers
    /\ now >= t.deadline
    /\ timers' = timers \ {t}
    /\ ctx' = [ctx EXCEPT ![t.session].th.timeoutID = 0]
    /\ remote' = [remote EXCEPT ![t.session] =
                      Append(@, IncrementalMsg(t.session, t.n, t.change))]
    /\ UNCHANGED <<now, glyphEditingDonePromise, cancelGlyphEditing, pc, edit, inc,
                   nextTimerID, notifications, docs, selection, undoStacks, thrown,
                   dialogs, hist>>

EditStep ==
    \/ \E g \in GlyphNames : StartEdit(g)
    \/ EditRejected
    \/ BeginEdit
    \/ \E mayDrop \in BOOLEAN : SendIncrementalChange(mayDrop)
    \/ IncrementalSend
    \/ \E mutate \in BOOLEAN, broadcast \in BOOLEAN : EditFuncReturn(mutate, broadcast)
    \/ \E mutate \in BOOLEAN : EditFuncThrows(mutate)
    \/ RollbackIncrementalSend
    \/ \E s \in 1..Len(ctx) : FinalGlyphChanged(s)
    \/ \E s \in 1..Len(ctx), error \in BOOLEAN : FinalRemoteReturn(s, error)
    \/ \E s \in 1..Len(ctx) : FinalPushUndoRecord(s)
    \/ \E s \in 1..Len(ctx) : CancelGlyphChanged(s)
    \/ \E reason \in Reasons : CancelEditing(reason)
    \/ Tick
    \/ \E t \in timers : TimerFire(t)

\* ------------------------------------------------------------------------
\* FontController: the glyph cache, changes applied to it, reloads, undo
\* ------------------------------------------------------------------------

\* the glyph map of the font
FontGlyphNames == {"A", "B"}

\* what font.getGlyph(glyphName) of the backend returns
BackendGlyph(g) == [k |-> Num(0)]

\* glyph.getAllComponentNames(): glyph B has glyph A as a component, and
\* glyph C has glyph B
ComponentNames(g) ==
    CASE g = "B" -> {"A"}
      [] g = "C" -> {"B"}
      [] OTHER -> {}

\* the leaf null of a change pattern
Null == [null |-> TRUE]

\* the changes applyChange is handed: one glyph, two glyphs (flat and
\* consolidated), the font lib, and a path that does not resolve
GlyphChange(g, v) == [p |-> <<"glyphs", g>>, f |-> "=", a |-> <<"k", Num(v)>>]

FontChanges ==
    {GlyphChange("A", 1), GlyphChange("B", 1),
     [c |-> <<GlyphChange("A", 1), GlyphChange("B", 1)>>],
     consolidateChanges(<<GlyphChange("A", 1), GlyphChange("B", 1)>>, <<>>),
     [p |-> <<"lib">>, f |-> "=", a |-> <<"k", Num(1)>>],
     [p |-> <<"glyphs", "A", "zz">>, f |-> "=", a |-> <<"k", Num(1)>>]}

NoFontCall ==
    [op |-> "none", change |-> EmptyObj, isExternalChange |-> FALSE, names |-> {},
     isRedo |-> FALSE, err |-> FALSE, ret |-> Undefined, sent |-> <<>>]

InitFont ==
    /\ glyphsPromiseCache = EmptyObj
    /\ glyphUsedBy = EmptyObj
    /\ glyphMadeOf = EmptyObj
    /\ rootObject = [lib |-> [k |-> Num(0)]]
    /\ lastFontCall = NoFontCall

\* at most so many calls of a function are nested: deeper, the call stack
\* is exhausted
MaxCallDepth == 5

\* updateGlyphDependencies that does not zap the previous used-by data
updateGlyphDependencies_noZap(usedBy, madeOf, glyphName, componentNames) ==
    [usedBy |-> [c \in DOMAIN usedBy \cup componentNames |->
                    IF c \in componentNames
                    THEN (IF Has(usedBy, c) THEN usedBy[c] ELSE {}) \cup {glyphName}
                    ELSE usedBy[c]],
     madeOf |-> With(madeOf, glyphName, componentNames)]

\* updateGlyphDependencies(glyph), componentNames being what
\* glyph.getAllComponentNames() returns: the maps glyphUsedBy and glyphMadeOf
\* afterwards
updateGlyphDependencies(usedBy, madeOf, glyphName, componentNames) ==
    LET old == IF Has(madeOf, glyphName) THEN madeOf[glyphName] ELSE {}
        zapped == [c \in DOMAIN usedBy |->
                      IF c \in old THEN usedBy[c] \ {glyphName} ELSE usedBy[c]]
    IN  [usedBy |-> [c \in DOMAIN zapped \cup componentNames |->
                        IF c \in componentNames
                        THEN (IF Has(zapped, c) THEN zapped[c] ELSE {}) \cup {glyphName}
                        ELSE zapped[c]],
         madeOf |-> With(madeOf, glyphName, componentNames)]

RECURSIVE IterDependants(_, _, _, _, _)
RECURSIVE IterEach(_, _, _, _)

\* the generator without its test of seenGlyphNames
IterDependants_noGuard(graph, glyphName, seenGlyphNames, isFirst, depth) ==
    IF depth > MaxCallDepth
    THEN [yielded |-> {}, seen |-> seenGlyphNames, overflow |-> TRUE]
    ELSE IterEach(graph, IF Has(graph, glyphName) THEN graph[glyphName] ELSE {},
                  seenGlyphNames \cup {glyphName}, depth)

\* the generator iterGlyphMadeOf(glyphName, seenGlyphNames) over glyphMadeOf,
\* and iterGlyphUsedBy over glyphUsedBy: the names it yields and
\* seenGlyphNames afterwards; isFirst: seenGlyphNames was not given;
\* overflow: the calls are nested deeper than MaxCallDepth
IterDependants(graph, glyphName, seenGlyphNames, isFirst, depth) ==
    IF depth > MaxCallDepth
    THEN [yielded |-> {}, seen |-> seenGlyphNames, overflow |-> TRUE]
    ELSE IF ~isFirst /\ glyphName \in seenGlyphNames
    THEN [yielded |-> {}, seen |-> seenGlyphNames, overflow |-> FALSE]
    ELSE IterEach(graph, IF Has(graph, glyphName) THEN graph[glyphName] ELSE {},
                  seenGlyphNames \cup {glyphName}, depth)

\* for (const dependantGlyphName of ...): the name is yielded, and then what
\* the generator yields for it
IterEach(graph, todo, seenGlyphNames, depth) ==
    IF todo = {} THEN [yielded |-> {}, seen |-> seenGlyphNames, overflow |-> FALSE]
    ELSE LET dependantGlyphName == CHOOSE x \in todo : TRUE
             deeper == IterDependants(graph, dependantGlyphName, seenGlyphNames,
                                      FALSE, depth + 1)
         IN  IF deeper.overflow
             THEN [deeper EXCEPT !.yielded = @ \cup {dependantGlyphName}]
             ELSE LET rest == IterEach(graph, todo \ {dependantGlyphName},
                                       deeper.seen, depth)
                  IN  [yielded |-> {dependantGlyphName} \cup deeper.yielded
                                       \cup rest.yielded,
                       seen |-> rest.seen, overflow |-> rest.overflow]

\* the names iterGlyphMadeOf(glyphName) yields
iterGlyphMadeOf(madeOf, glyphName) ==
    IterDependants(madeOf, glyphName, {}, TRUE, 1).yielded

\* the names iterGlyphUsedBy(glyphName) yields
iterGlyphUsedBy(usedBy, glyphName) ==
    IterDependants(usedBy, glyphName, {}, TRUE, 1).yielded

RECURSIVE purgeGlyphCache(_, _, _)
RECURSIVE PurgeEach(_, _, _)

\* _purgeGlyphCache(glyphName): the names deleted from the caches, the glyph
\* and, through glyphUsedBy, its dependants; overflow: the calls are nested
\* deeper than MaxCallDepth, and a RangeError is thrown
purgeGlyphCache(usedBy, glyphName, depth) ==
    IF depth > MaxCallDepth THEN [purged |-> {}, overflow |-> TRUE]
    ELSE LET r == PurgeEach(usedBy, IF Has(usedBy, glyphName) THEN usedBy[glyphName]
                                    ELSE {}, depth + 1)
         IN  [purged |-> {glyphName} \cup r.purged, overflow |-> r.overflow]

\* for (const dependantName of ...) this._purgeGlyphCache(dependantName)
PurgeEach(usedBy, todo, depth) ==
    IF todo = {} THEN [purged |-> {}, overflow |-> FALSE]
    ELSE LET dependantName == CHOOSE x \in todo : TRUE
             r == purgeGlyphCache(usedBy, dependantName, depth)
         IN  IF r.overflow THEN r
             ELSE LET rest == PurgeEach(usedBy, todo \ {dependantName}, depth)
                  IN  [purged |-> r.purged \cup rest.purged, overflow |-> rest.overflow]

\* the loop of reloadGlyphs(glyphNames): the names purged, the names whose
\* undo stack is deleted, and whether _purgeGlyphCache threw
RECURSIVE ReloadEach(_, _)
ReloadEach(usedBy, todo) ==
    IF todo = {} THEN [purged |-> {}, reloaded |-> {}, overflow |-> FALSE]
    ELSE LET glyphName == CHOOSE x \in todo : TRUE
             r == purgeGlyphCache(usedBy, glyphName, 1)
         IN  IF r.overflow THEN [purged |-> r.purged, reloaded |-> {}, overflow |-> TRUE]
             ELSE LET rest == ReloadEach(usedBy, todo \ {glyphName})
                  IN  [purged |-> r.purged \cup rest.purged,
                       reloaded |-> {glyphName} \cup rest.reloaded,
                       overflow |-> rest.overflow]

\* getCachedDataPattern()
getCachedDataPattern(root, cache) ==
    [key \in DOMAIN root \cup {"glyphs"} |->
        IF key = "glyphs" THEN [g \in DOMAIN cache |-> Null] ELSE Null]

\* where the path leads in the pattern: to a leaf, to an inner node (what
\* is left of the pattern), or nowhere
RECURSIVE PatternWalk(_, _)
PatternWalk(pattern, path) ==
    IF path = <<>> THEN [at |-> "node", node |-> pattern]
    ELSE IF ~Has(pattern, Head(path)) THEN [at |-> "miss", node |-> EmptyObj]
    ELSE IF pattern[Head(path)] = Null THEN [at |-> "leaf", node |-> EmptyObj]
    ELSE PatternWalk(pattern[Head(path)], Tail(path))

\* filterChangePattern(change, matchPattern): the change cut down to the
\* paths of the pattern, the empty change if nothing is left
RECURSIVE filterChangePattern(_, _)
RECURSIVE FilterChildren(_, _)

FilterChildren(children, pattern) ==
    IF children = <<>> THEN <<>>
    ELSE LET head == filterChangePattern(Head(children), pattern)
             rest == FilterChildren(Tail(children), pattern)
         IN  IF isNotEmpty(head) THEN <<head>> \o rest ELSE rest

filterChangePattern(change, pattern) ==
    LET w == PatternWalk(pattern, IF Has(change, "p") THEN change.p ELSE <<>>)
    IN  CASE w.at = "miss" -> EmptyObj
          [] w.at = "leaf" -> change
          [] OTHER ->
             LET children == FilterChildren(IF Has(change, "c") THEN change.c
                                            ELSE <<>>, w.node)
             IN  IF children = <<>> THEN EmptyObj
                 ELSE With(Without(Without(change, "f"), "a"), "c", children)

\* FontController.applyChange(change, isExternalChange) on the cache, the
\* root object and the undo stacks; err: applyChange threw
FontController_applyChange(cache, root, stacks, change, isExternalChange) ==
    LET cachedPattern == getCachedDataPattern(root, cache)
        filtered == filterChangePattern(change, cachedPattern)
        glyphNames == collectGlyphNames(filtered)
        glyphSet == [g \in glyphNames |-> cache[g]]
        r == applyChange(With(root, "glyphs", glyphSet), filtered)
    IN  [cache |-> [g \in DOMAIN cache |->
                       IF g \in glyphNames THEN r.doc["glyphs"][g] ELSE cache[g]],
         root |-> Without(r.doc, "glyphs"),
         stacks |-> IF ~r.err /\ isExternalChange
                    THEN [g \in DOMAIN stacks \ glyphNames |-> stacks[g]]
                    ELSE stacks,
         err |-> r.err]

\* reverseUndoInfo that returns the info as it is
reverseUndoInfo_same(undoInfo) == undoInfo

\* reverseUndoInfo(undoInfo)
reverseUndoInfo(undoInfo) ==
    [k \in DOMAIN undoInfo |->
        CASE k = "redoSelection" -> undoInfo["undoSelection"]
          [] k = "undoSelection" -> undoInfo["redoSelection"]
          [] OTHER -> undoInfo[k]]

\* reverseUndoRecord(undoRecord)
reverseUndoRecord(undoRecord) ==
    [change |-> undoRecord.rollbackChange,
     rollbackChange |-> undoRecord.change,
     info |-> reverseUndoInfo(undoRecord.info)]

\* getGlyph(glyphName) of a glyph that is not cached: the backend is asked,
\* the glyph is cached and its dependencies are recorded
FontGetGlyph(g) ==
    LET d == updateGlyphDependencies(glyphUsedBy, glyphMadeOf, g, ComponentNames(g))
    IN  /\ ~Has(glyphsPromiseCache, g)
        /\ glyphsPromiseCache' = With(glyphsPromiseCache, g, BackendGlyph(g))
        /\ glyphUsedBy' = d.usedBy
        /\ glyphMadeOf' = d.madeOf
        /\ lastFontCall' = [NoFontCall EXCEPT !.op = "getGlyph", !.names = {g}]
        /\ UNCHANGED <<rootObject, undoStacks>>

\* an edit of the cached glyph g is finalized: the glyph has changed and
\* pushUndoRecord(change, rollbackChange, undoInfo) is called
FontPushUndoRecord(g) ==
    LET old == glyphsPromiseCache[g].k.num
        new == IF old = 0 THEN 1 ELSE 0
        stack == IF Has(undoStacks, g) THEN undoStacks[g] ELSE NewUndoStack
        r == FontController_pushUndoRecord(undoStacks, GlyphChange(g, new),
                 GlyphChange(g, old),
                 [label |-> "edit", undoSelection |-> old, redoSelection |-> new])
    IN  /\ Has(glyphsPromiseCache, g)
        /\ Len(stack.undoStack) + Len(stack.redoStack) < MaxFontStack
        /\ glyphsPromiseCache' = [glyphsPromiseCache EXCEPT ![g].k = Num(new)]
        /\ undoStacks' = r.stacks
        /\ lastFontCall' = [NoFontCall EXCEPT !.op = "pushUndoRecord", !.names = {g},
                                               !.err = r.err]
        /\ UNCHANGED <<glyphUsedBy, glyphMadeOf, rootObject>>

\* FontController.applyChange(change, isExternalChange)
FontApplyChange(change, isExternalChange) ==
    LET r == FontController_applyChange(glyphsPromiseCache, rootObject, undoStacks,
                                        change, isExternalChange)
    IN  /\ glyphsPromiseCache' = r.cache
        /\ rootObject' = r.root
        /\ undoStacks' = r.stacks
        /\ lastFontCall' = [NoFontCall EXCEPT !.op = "applyChange", !.change = change,
                                !.isExternalChange = isExternalChange,
                                !.err = r.err]
        /\ UNCHANGED <<glyphUsedBy, glyphMadeOf>>

\* FontController.reloadGlyphs(glyphNames)
FontReloadGlyphs(glyphNames) ==
    LET r == ReloadEach(glyphUsedBy, glyphNames)
    IN  /\ glyphsPromiseCache' = [g \in DOMAIN glyphsPromiseCache \ r.purged |->
                                      glyphsPromiseCache[g]]
        /\ undoStacks' = [g \in DOMAIN undoStacks \ r.reloaded |-> undoStacks[g]]
        /\ lastFontCall' = [NoFontCall EXCEPT !.op = "reloadGlyphs",
                                !.names = glyphNames, !.err = r.overflow]
        /\ UNCHANGED <<glyphUsedBy, glyphMadeOf, rootObject>>

\* FontController.undoRedoGlyph(glyphName, isRedo): the record is popped,
\* its rollback applied locally and committed to the remote
FontUndoRedoGlyph(g, isRedo) ==
    IF ~Has(undoStacks, g)
    THEN /\ lastFontCall' = [NoFontCall EXCEPT !.op = "undoRedoGlyph", !.names = {g},
                                 !.isRedo = isRedo]
         /\ UNCHANGED <<glyphsPromiseCache, glyphUsedBy, glyphMadeOf, rootObject,
                        undoStacks>>
    ELSE LET popped == popUndoRedoRecord(undoStacks[g], isRedo)
             stacks1 == [undoStacks EXCEPT ![g] = popped.stack]
             undoRecord == IF isRedo /\ popped.ret # Undefined
                           THEN reverseUndoRecord(popped.ret) ELSE popped.ret
         IN  IF popped.ret = Undefined
             THEN /\ lastFontCall' = [NoFontCall EXCEPT !.op = "undoRedoGlyph",
                                          !.names = {g}, !.isRedo = isRedo]
                  /\ UNCHANGED <<glyphsPromiseCache, glyphUsedBy, glyphMadeOf,
                                 rootObject, undoStacks>>
             ELSE LET r == FontController_applyChange(glyphsPromiseCache, rootObject,
                                stacks1, undoRecord.rollbackChange, FALSE)
                  IN  /\ glyphsPromiseCache' = r.cache
                      /\ rootObject' = r.root
                      /\ undoStacks' = r.stacks
                      /\ lastFontCall' =
                             [NoFontCall EXCEPT !.op = "undoRedoGlyph", !.names = {g},
                                 !.isRedo = isRedo, !.err = r.err,
                                 !.ret = IF r.err THEN Undefined ELSE undoRecord.info,
                                 !.sent = IF r.err THEN <<>>
                                          ELSE <<FinalMsg(0, undoRecord.rollbackChange,
                                                          undoRecord.change,
                                                          undoRecord.info.label, TRUE)>>]
                      /\ UNCHANGED <<glyphUsedBy, glyphMadeOf>>

FontStep ==
    \/ \E g \in FontGlyphNames : FontGetGlyph(g)
    \/ \E g \in FontGlyphNames : FontPushUndoRecord(g)
    \/ \E change \in FontChanges, isExternalChange \in BOOLEAN :
           FontApplyChange(change, isExternalChange)
    \/ \E glyphNames \in SUBSET FontGlyphNames : FontReloadGlyphs(glyphNames)
    \/ \E g \in FontGlyphNames, isRedo \in BOOLEAN : FontUndoRedoGlyph(g, isRedo)

\* ------------------------------------------------------------------------
\* FontController.loadGlyphs
\* ------------------------------------------------------------------------

\* the glyph map of the font whose glyphs loadGlyphs is asked for
LoadGlyphNames == {"A", "B", "C", "D"}

NotLoading ==
    [called |-> FALSE, glyphNames |-> {}, done |-> {}, loading |-> {},
     awaiting |-> {}, resolved |-> FALSE]

InitLoad == load = NotLoading

\* loading.length of the Set loading: a Set has a size and no length
SetLength(set) == Undefined

\* checkAllDone(): allDoneFunc() is called if !loading.length
checkAllDone(l) ==
    IF SetLength(l.loading) = Undefined THEN [l EXCEPT !.resolved = TRUE] ELSE l

\* loadGlyph(glyphName) up to its await of getGlyph(glyphName), for each of
\* the names; the calls of names that are done return at once, and their
\* then(checkAllDone) runs
StartLoadGlyph(l, names) ==
    LET fresh == names \ l.done
        l1 == [l EXCEPT !.done = @ \cup fresh, !.loading = @ \cup fresh,
                        !.awaiting = @ \cup fresh]
    IN  IF names \cap l.done # {} THEN checkAllDone(l1) ELSE l1

\* loadGlyphs(glyphNames) is called; of no names, the promise of the async
\* function is resolved when it returns
LoadGlyphs(glyphNames) ==
    /\ ~load.called
    /\ load' = [StartLoadGlyph([load EXCEPT !.called = TRUE,
                                            !.glyphNames = glyphNames], glyphNames)
                   EXCEPT !.resolved = @ \/ glyphNames = {}]
    /\ UNCHANGED <<fontVars, undoStacks>>

\* the getGlyph(glyphName) a loadGlyph awaits returns: the glyph is cached
\* with its dependencies, loadGlyph is called for what it is made of, the
\* name leaves loading, and then(checkAllDone) runs
LoadGlyphLoaded(g) ==
    LET d == IF Has(glyphsPromiseCache, g)
             THEN [usedBy |-> glyphUsedBy, madeOf |-> glyphMadeOf]
             ELSE updateGlyphDependencies(glyphUsedBy, glyphMadeOf, g, ComponentNames(g))
        l1 == StartLoadGlyph([load EXCEPT !.awaiting = @ \ {g}],
                             iterGlyphMadeOf(d.madeOf, g))
        l2 == [l1 EXCEPT !.loading = @ \ {g}]
    IN  /\ g \in load.awaiting
        /\ glyphsPromiseCache' = IF Has(glyphsPromiseCache, g) THEN glyphsPromiseCache
                                 ELSE With(glyphsPromiseCache, g, BackendGlyph(g))
        /\ glyphUsedBy' = d.usedBy
        /\ glyphMadeOf' = d.madeOf
        /\ load' = checkAllDone(l2)
        /\ UNCHANGED <<rootObject, lastFontCall, undoStacks>>

LoadStep ==
    \/ \E glyphNames \in SUBSET LoadGlyphNames : LoadGlyphs(glyphNames)
    \/ \E g \in LoadGlyphNames : LoadGlyphLoaded(g)
    \/ \E g \in LoadGlyphNames : FontGetGlyph(g) /\ UNCHANGED load

\* ------------------------------------------------------------------------
\* FontController: the cache of glyph instances and the keys kept per glyph
\* ------------------------------------------------------------------------

\* the capacity of the instance cache
GLYPH_CACHE_SIZE == 2

\* at most so many getGlyphInstance calls await a deleted item at a time
MaxPending == 1

\* the locations instances are asked at
Locations == {"l1", "l2"}

\* instanceCacheKey = glyphName + locationToString(location)
InstanceCacheKey(glyphName, location) == <<glyphName, location>>

InitInstances ==
    /\ instanceCache = <<>>
    /\ instanceCacheKeys = EmptyObj
    /\ instancePending = {}

\* the keys of the cache
CachedKeys(cache) == {cache[i].key : i \in 1..Len(cache)}

\* LRUCache.get(key): the cache afterwards, the item the most recently used
LRUCache_get(cache, key) ==
    LET i == CHOOSE j \in 1..Len(cache) : cache[j].key = key
    IN  SubSeq(cache, 1, i - 1) \o SubSeq(cache, i + 1, Len(cache)) \o <<cache[i]>>

\* LRUCache.put(key, value) of a key the cache does not hold: the cache
\* afterwards and the item deleted for it, the least recently used one of a
\* full cache
LRUCache_put(cache, key, value) ==
    IF Len(cache) >= GLYPH_CACHE_SIZE
    THEN [cache |-> Tail(cache) \o <<[key |-> key, value |-> value]>>,
          deleted |-> <<Head(cache)>>]
    ELSE [cache |-> cache \o <<[key |-> key, value |-> value]>>, deleted |-> <<>>]

\* the set of keys of glyphName has instanceCacheKey added, a new set if
\* there is none
AddInstanceKey(keys, glyphName, instanceCacheKey) ==
    With(keys, glyphName,
         (IF Has(keys, glyphName) THEN keys[glyphName] ELSE {}) \cup {instanceCacheKey})

\* _glyphInstancePromiseCacheKeys[chacheGlyphName]?.delete(instanceCacheKey)
DeleteInstanceKey(keys, chacheGlyphName, instanceCacheKey) ==
    IF Has(keys, chacheGlyphName)
    THEN [keys EXCEPT ![chacheGlyphName] = @ \ {instanceCacheKey}]
    ELSE keys

\* _purgeInstanceCache(glyphName) for each of the names
PurgeInstances(cache, keys, names) ==
    LET gone == UNION {keys[g] : g \in names \cap DOMAIN keys}
    IN  [cache |-> SelectSeq(cache, LAMBDA item : item.key \notin gone),
         keys |-> [g \in DOMAIN keys \ names |-> keys[g]]]

\* getGlyphInstance(glyphName, location): an instance that is cached is the
\* most recently used; one that is not is made of the glyph, which is
\* loaded for it, and put in the cache; if no item is deleted for it the
\* key is recorded, otherwise the call awaits the deleted item
GetGlyphInstance(glyphName, location) ==
    LET key == InstanceCacheKey(glyphName, location)
        d == IF Has(glyphsPromiseCache, glyphName)
             THEN [usedBy |-> glyphUsedBy, madeOf |-> glyphMadeOf]
             ELSE updateGlyphDependencies(glyphUsedBy, glyphMadeOf, glyphName,
                                          ComponentNames(glyphName))
        r == LRUCache_put(instanceCache, key, [name |-> glyphName])
    IN  /\ lastFontCall' = [NoFontCall EXCEPT !.op = "getGlyphInstance",
                                              !.names = {glyphName}]
        /\ UNCHANGED <<rootObject, undoStacks>>
        /\ IF key \in CachedKeys(instanceCache)
           THEN /\ instanceCache' = LRUCache_get(instanceCache, key)
                /\ UNCHANGED <<instanceCacheKeys, instancePending, glyphsPromiseCache,
                               glyphUsedBy, glyphMadeOf>>
           ELSE /\ glyphsPromiseCache' =
                       IF Has(glyphsPromiseCache, glyphName) THEN glyphsPromiseCache
                       ELSE With(glyphsPromiseCache, glyphName, BackendGlyph(glyphName))
                /\ glyphUsedBy' = d.usedBy
                /\ glyphMadeOf' = d.madeOf
                /\ instanceCache' = r.cache
                /\ IF r.deleted = <<>>
                   THEN /\ instanceCacheKeys' =
                               AddInstanceKey(instanceCacheKeys, glyphName, key)
                        /\ UNCHANGED instancePending
                   ELSE /\ Cardinality(instancePending) < MaxPending
                        /\ instancePending' = instancePending \cup
                               {[glyphName |-> glyphName, instanceCacheKey |-> key,
                                 deletedItem |-> r.deleted[1]]}
                        /\ UNCHANGED instanceCacheKeys

\* the deleted item a getGlyphInstance call awaits is there: the key of the
\* call is deleted from the keys of the glyph of the deleted item, and then
\* recorded for the glyph of the call
GetGlyphInstanceResume(call) ==
    LET chacheGlyphName == call.deletedItem.value.name
    IN  /\ call \in instancePending
        /\ instancePending' = instancePending \ {call}
        /\ instanceCacheKeys' =
               AddInstanceKey(DeleteInstanceKey(instanceCacheKeys, chacheGlyphName,
                                                call.instanceCacheKey),
                              call.glyphName, call.instanceCacheKey)
        /\ UNCHANGED <<instanceCache, fontVars, undoStacks>>

\* reloadGlyphs(glyphNames), with the instances its _purgeGlyphCache purges
InstanceReloadGlyphs(glyphNames) ==
    LET r == PurgeInstances(instanceCache, instanceCacheKeys,
                            ReloadEach(glyphUsedBy, glyphNames).purged)
    IN  /\ FontReloadGlyphs(glyphNames)
        /\ instanceCache' = r.cache
        /\ instanceCacheKeys' = r.keys
        /\ UNCHANGED instancePending

InstanceStep ==
    \/ \E g \in FontGlyphNames, location \in Locations : GetGlyphInstance(g, location)
    \/ \E call \in instancePending : GetGlyphInstanceResume(call)
    \/ \E glyphNames \in SUBSET FontGlyphNames : InstanceReloadGlyphs(glyphNames)

\* ------------------------------------------------------------------------
\* FontController: the dependencies of glyphs whose components change
\* ------------------------------------------------------------------------

\* the glyph map of the font whose glyphs have any components
DepGlyphNames == {"A", "B", "C"}

\* getGlyph(glyphName) of a glyph that is not cached, the backend's glyph
\* having the components componentNames
DepsGetGlyph(g, componentNames) ==
    LET d == updateGlyphDependencies(glyphUsedBy, glyphMadeOf, g, componentNames)
    IN  /\ ~Has(glyphsPromiseCache, g)
        /\ glyphsPromiseCache' = With(glyphsPromiseCache, g, BackendGlyph(g))
        /\ glyphUsedBy' = d.usedBy
        /\ glyphMadeOf' = d.madeOf
        /\ lastFontCall' = [NoFontCall EXCEPT !.op = "getGlyph", !.names = {g}]
        /\ UNCHANGED <<rootObject, undoStacks, instVars>>

\* glyphChanged(glyphName) of a cached glyph whose components are now
\* componentNames: the instances of the glyph and of the glyphs using it are
\* purged, these glyphs are got, and the dependencies of the glyph updated
DepsGlyphChanged(g, componentNames) ==
    LET glyphNames == {g} \cup iterGlyphUsedBy(glyphUsedBy, g)
        r == PurgeInstances(instanceCache, instanceCacheKeys, glyphNames)
        d == updateGlyphDependencies(glyphUsedBy, glyphMadeOf, g, componentNames)
    IN  /\ Has(glyphsPromiseCache, g)
        /\ instanceCache' = r.cache
        /\ instanceCacheKeys' = r.keys
        /\ glyphsPromiseCache' =
               [n \in DOMAIN glyphsPromiseCache \cup glyphNames |->
                   IF Has(glyphsPromiseCache, n) THEN glyphsPromiseCache[n]
                   ELSE BackendGlyph(n)]
        /\ glyphUsedBy' = d.usedBy
        /\ glyphMadeOf' = d.madeOf
        /\ lastFontCall' = [NoFontCall EXCEPT !.op = "glyphChanged", !.names = {g}]
        /\ UNCHANGED <<rootObject, undoStacks, instancePending>>

DepsStep ==
    \/ \E g \in DepGlyphNames, componentNames \in SUBSET DepGlyphNames :
           DepsGetGlyph(g, componentNames)
    \/ \E g \in DepGlyphNames, componentNames \in SUBSET DepGlyphNames :
           DepsGlyphChanged(g, componentNames)
    \/ \E glyphNames \in SUBSET DepGlyphNames : InstanceReloadGlyphs(glyphNames)

\* ------------------------------------------------------------------------
\* FontController.getGlyph: the promises callers share
\* ------------------------------------------------------------------------

\* the glyph map of the font
FetchGlyphMap == {"A", "B", "C"}

\* the names getGlyph is called with: Z is not in the glyph map
FetchNames == FetchGlyphMap \cup {"Z"}

\* at most so many getGlyph calls
MaxGetGlyphCalls == 4

\* the promises are numbered as the remote requests; 0: Promise.resolve(null)
InitFetch ==
    fetch = [cache |-> <<>>, requests |-> <<>>, settled |-> {}, calls |-> <<>>]

\* the promise the cache holds for the key
CachedValue(cache, key) ==
    (CHOOSE item \in {cache[i] : i \in 1..Len(cache)} : item.key = key).value

\* getGlyph that caches the glyph when the remote has returned it, not the
\* promise when it is made
FetchGetGlyph_cacheLate(glyphName) ==
    /\ Len(fetch.calls) < MaxGetGlyphCalls
    /\ IF glyphName \notin FetchGlyphMap
       THEN fetch' = [fetch EXCEPT !.calls = Append(@, [name |-> glyphName, ret |-> 0])]
       ELSE IF glyphName \in CachedKeys(fetch.cache)
                /\ CachedValue(fetch.cache, glyphName) \in fetch.settled
       THEN fetch' = [fetch EXCEPT
                !.cache = LRUCache_get(@, glyphName),
                !.calls = Append(@, [name |-> glyphName,
                                     ret |-> CachedValue(fetch.cache, glyphName)])]
       ELSE LET glyphPromise == Len(fetch.requests) + 1
                cache == SelectSeq(fetch.cache, LAMBDA item : item.key # glyphName)
            IN  fetch' = [fetch EXCEPT
                    !.requests = Append(@, glyphName),
                    !.cache = LRUCache_put(cache, glyphName, glyphPromise).cache,
                    !.calls = Append(@, [name |-> glyphName, ret |-> glyphPromise])]

\* getGlyph(glyphName): null for a name that is not in the glyph map; the
\* promise of the cache if there is one; otherwise _getGlyph(glyphName) asks
\* the remote font, and its promise is put in the cache
FetchGetGlyph(glyphName) ==
    /\ Len(fetch.calls) < MaxGetGlyphCalls
    /\ IF glyphName \notin FetchGlyphMap
       THEN fetch' = [fetch EXCEPT !.calls = Append(@, [name |-> glyphName, ret |-> 0])]
       ELSE IF glyphName \in CachedKeys(fetch.cache)
       THEN fetch' = [fetch EXCEPT
                !.cache = LRUCache_get(@, glyphName),
                !.calls = Append(@, [name |-> glyphName,
                                     ret |-> CachedValue(fetch.cache, glyphName)])]
       ELSE LET glyphPromise == Len(fetch.requests) + 1
            IN  fetch' = [fetch EXCEPT
                    !.requests = Append(@, glyphName),
                    !.cache = LRUCache_put(@, glyphName, glyphPromise).cache,
                    !.calls = Append(@, [name |-> glyphName, ret |-> glyphPromise])]

\* the remote font returns the glyph of a request: the promise is settled
FetchRemoteReturns(glyphPromise) ==
    /\ glyphPromise \in (1..Len(fetch.requests)) \ fetch.settled
    /\ fetch' = [fetch EXCEPT !.settled = @ \cup {glyphPromise}]

\* _purgeGlyphCache(glyphName) of a glyph no glyph uses
FetchPurge(glyphName) ==
    /\ glyphName \in CachedKeys(fetch.cache)
    /\ fetch' = [fetch EXCEPT
           !.cache = SelectSeq(@, LAMBDA item : item.key # glyphName)]

FetchStep ==
    \/ \E glyphName \in FetchNames : FetchGetGlyph(glyphName)
    \/ \E glyphPromise \in 1..MaxGetGlyphCalls : FetchRemoteReturns(glyphPromise)
    \/ \E glyphName \in FetchGlyphMap : FetchPurge(glyphName)

\* ------------------------------------------------------------------------
\* changes.js: calls of its functions on arguments drawn from bounded sets
\* ------------------------------------------------------------------------

\* path segments: two keys and the array index 0
Segments == {"a", "b", "#0"}

\* the paths of length n
RECURSIVE PathsOfLen(_)
PathsOfLen(n) ==
    IF n = 0 THEN {<<>>}
    ELSE {<<seg>> \o q : seg \in Segments, q \in PathsOfLen(n - 1)}

ArgPaths == UNION {PathsOfLen(n) : n \in 1..MaxPathLen}

\* an operation change: it assigns v to the key k of what its path leads to
OpChange(path, v) == [p |-> path, f |-> "=", a |-> <<"k", Num(v)>>]

\* the lists of operation changes with paths; the i-th change assigns i
RECURSIVE OpChangeLists(_)
OpChangeLists(n) ==
    IF n = 0 THEN {<<>>}
    ELSE {Append(l, OpChange(q, n)) : l \in OpChangeLists(n - 1), q \in ArgPaths}

\* the collector number j with nf forward and nr rollback entries in its
\* lists; a list that was never created (undefined) comes of the count -1
\* and is written as a list that is not defined
ArgEntries(j, n, func) ==
    [defined |-> n >= 0,
     items |-> [i \in 1..n |-> [f |-> func, a |-> <<"k", Num(10 * j + i)>>]]]

ArgCollector(j, nf, nr) ==
    [forwardChanges |-> ArgEntries(j, nf, "="),
     rollbackChanges |-> ArgEntries(j, nr, "d")]

\* the pairs of counts the collectors handed to concat have
ArgShapes ==
    {<<-1, -1>>} \cup {<<n, n>> : n \in 0..MaxEntries}
        \cup {<<n, -1>> : n \in 1..MaxEntries} \cup {<<-1, n>> : n \in 1..MaxEntries}

\* the lists of n collectors, numbered from 0
RECURSIVE ArgCollectorLists(_)
ArgCollectorLists(n) ==
    IF n = 0 THEN {<<>>}
    ELSE {Append(l, ArgCollector(n - 1, sh[1], sh[2])) :
              l \in ArgCollectorLists(n - 1), sh \in ArgShapes}

\* `get hasChange' and `get hasRollbackChange' on such a collector
ListHasEntries(list) == list.defined /\ Len(list.items) > 0

\* concat with `rollbackChanges.push(...other._rollbackChanges)'
RECURSIVE concat_push(_, _)
concat_push(this, others) ==
    IF others = <<>>
    THEN [forwardChanges |-> IF ListHasEntries(this.forwardChanges)
                             THEN this.forwardChanges.items ELSE <<>>,
          rollbackChanges |-> IF ListHasEntries(this.rollbackChanges)
                              THEN this.rollbackChanges.items ELSE <<>>]
    ELSE LET sofar == concat_push(this, SubSeq(others, 1, Len(others) - 1))
             other == others[Len(others)]
         IN  [forwardChanges |-> IF ListHasEntries(other.forwardChanges)
                                 THEN sofar.forwardChanges \o other.forwardChanges.items
                                 ELSE sofar.forwardChanges,
              rollbackChanges |-> IF ListHasEntries(other.rollbackChanges)
                                  THEN sofar.rollbackChanges \o other.rollbackChanges.items
                                  ELSE sofar.rollbackChanges]

\* this.concat(...others): the two lists of the collector it returns
RECURSIVE concat(_, _)
concat(this, others) ==
    IF others = <<>>
    THEN [forwardChanges |-> IF ListHasEntries(this.forwardChanges)
                             THEN this.forwardChanges.items ELSE <<>>,
          rollbackChanges |-> IF ListHasEntries(this.rollbackChanges)
                              THEN this.rollbackChanges.items ELSE <<>>]
    ELSE LET sofar == concat(this, SubSeq(others, 1, Len(others) - 1))
             other == others[Len(others)]
         IN  [forwardChanges |-> IF ListHasEntries(other.forwardChanges)
                                 THEN sofar.forwardChanges \o other.forwardChanges.items
                                 ELSE sofar.forwardChanges,
              rollbackChanges |-> IF ListHasEntries(other.rollbackChanges)
                                  THEN other.rollbackChanges.items \o sofar.rollbackChanges
                                  ELSE sofar.rollbackChanges]

\* the lists of length n of elements of S, and those of length m..n
RECURSIVE ListsOver(_, _)
ListsOver(S, n) ==
    IF n = 0 THEN {<<>>}
    ELSE {Append(l, x) : l \in ListsOver(S, n - 1), x \in S}

ListsUpTo(S, m, n) == UNION {ListsOver(S, k) : k \in m..n}

\* an optional field of a node: left out, or given with a value
None == [has |-> FALSE, v |-> <<>>]

Some(x) == [has |-> TRUE, v |-> x]

Opt(S) == {None} \cup {Some(x) : x \in S}

\* a node with the optional fields p and c given or left out
Node(base, path, children) ==
    LET withPath == IF path.has THEN With(base, "p", path.v) ELSE base
    IN  IF children.has THEN With(withPath, "c", children.v) ELSE withPath

\* change trees without an operation at any node
NoOpLeaves ==
    {Node(base, path, None) :
        base \in {EmptyObj, [a |-> <<"k", Num(1)>>]},
        path \in Opt({<<>>} \cup PathsOfLen(1))}

NoOpNodes ==
    NoOpLeaves \cup {Node(EmptyObj, path, children) :
                        path \in Opt({<<"a">>}),
                        children \in Opt(ListsUpTo(NoOpLeaves, 0, MaxListLen))}

NoOpTrees ==
    NoOpNodes \cup {Node(EmptyObj, path, Some(<<t>>)) : path \in Opt({<<"a">>}), t \in NoOpNodes}

\* raw changes with an operation: children and grandchildren with or
\* without an operation, paths empty, left out or one element long
RawLeaves ==
    {Node(base, path, None) :
        base \in {EmptyObj, [f |-> "=", a |-> <<"k", Num(1)>>]},
        path \in Opt({<<>>, <<"a">>})}

RawChildren ==
    RawLeaves \cup {Node(EmptyObj, path, Some(<<leaf>>)) :
                       path \in Opt({<<"a">>}), leaf \in RawLeaves}

RawChanges ==
    {Node([f |-> "=", a |-> <<"k", Num(0)>>], path, children) :
        path \in Opt({<<>>} \cup PathsOfLen(1)),
        children \in Opt(ListsUpTo(RawChildren, 0, MaxListLen))}

\* documents: objects in objects, each with a number under the key k
ArgDocs ==
    {[k |-> Num(0)],
     [k |-> Num(0), a |-> [k |-> Num(0)]],
     [k |-> Num(0), a |-> [k |-> Num(0), b |-> [k |-> Num(0)]], b |-> [k |-> Num(0)]]}

\* the changes handed to applyChange: a root with or without a path, an
\* operation and children, each child an operation with or without a path
ApplyChildChanges(n) ==
    {Node([f |-> "=", a |-> <<"k", Num(n)>>], path, None) :
        path \in Opt(PathsOfLen(1))}

RECURSIVE ApplyChildLists(_)
ApplyChildLists(n) ==
    IF n = 0 THEN {<<>>}
    ELSE {Append(l, x) : l \in ApplyChildLists(n - 1), x \in ApplyChildChanges(n)}

ApplyChanges ==
    {Node(base, path, children) :
        base \in {EmptyObj, [f |-> "=", a |-> <<"k", Num(9)>>]},
        path \in Opt(ArgPaths),
        children \in Opt(UNION {ApplyChildLists(n) : n \in 1..MaxListLen})}

\* the changes and the paths handed to matchChange
MatchSegments == {"a", "b"}

RECURSIVE MatchPathsOfLen(_)
MatchPathsOfLen(n) ==
    IF n = 0 THEN {<<>>}
    ELSE {<<seg>> \o q : seg \in MatchSegments, q \in MatchPathsOfLen(n - 1)}

MatchPaths == UNION {MatchPathsOfLen(n) : n \in 1..(MaxPathLen + 1)}

MatchChildChanges ==
    {Node([f |-> "=", a |-> <<"k", Num(1)>>], path, None) :
        path \in Opt(MatchPathsOfLen(1))}
        \cup {Node(EmptyObj, None, Some(<<[p |-> path, f |-> "=", a |-> <<"k", Num(2)>>]>>)) :
                 path \in MatchPathsOfLen(1)}

MatchChanges ==
    {Node(base, path, children) :
        base \in {EmptyObj, [f |-> "=", a |-> <<"k", Num(0)>>]},
        path \in Opt(UNION {MatchPathsOfLen(n) : n \in 1..MaxPathLen}),
        children \in Opt(ListsUpTo(MatchChildChanges, 1, MaxListLen))}

\* the arguments of pushUndoRecord: changes of one glyph, of two, of none,
\* and the map of undo stacks, empty or with a record for glyph A
PushChanges ==
    FontChanges \cup {[p |-> <<"glyphs">>, f |-> "=", a |-> <<"A", Num(1)>>],
                      [c |-> <<GlyphChange("A", 1), GlyphChange("A", 2)>>]}

ArgUndoInfo == [label |-> "edit", undoSelection |-> 0, redoSelection |-> 1]

ArgUndoStacks ==
    {EmptyObj,
     [A |-> pushUndoRecord(NewUndoStack,
                [change |-> GlyphChange("A", 1), rollbackChange |-> GlyphChange("A", 0),
                 info |-> ArgUndoInfo])]}

NoFnCall == [op |-> "none", args |-> <<>>, result |-> EmptyObj]

InitChanges == fnCall = NoFnCall

\* consolidateChanges(changes) on a list of operation changes
CallConsolidateList(changes) ==
    /\ fnCall' = [op |-> "consolidateChanges", args |-> <<changes>>,
                  result |-> consolidateChanges(changes, <<>>)]

\* collectors[1].concat(collectors[2], ...)
CallConcat(collectors) ==
    /\ fnCall' = [op |-> "concat", args |-> collectors,
                  result |-> concat(Head(collectors), Tail(collectors))]

\* consolidateChanges(changes) on change trees without an operation
CallConsolidateNoOp(changes) ==
    /\ fnCall' = [op |-> "consolidateChanges: no operation", args |-> <<changes>>,
                  result |-> consolidateChanges(changes, <<>>)]

\* consolidateChanges([x]) on a raw change with an operation
CallConsolidateSingle(x) ==
    /\ fnCall' = [op |-> "consolidateChanges: single", args |-> <<x>>,
                  result |-> consolidateChanges(<<x>>, <<>>)]

\* collector.change
CallCollectorChange(collector) ==
    /\ fnCall' = [op |-> "change", args |-> <<collector>>,
                  result |-> consolidateChanges(
                                 IF collector.forwardChanges.defined
                                 THEN collector.forwardChanges.items
                                 ELSE AsArray(EmptyObj), <<>>)]

\* applyChange(subject, change)
CallApplyChange(subject, change) ==
    /\ fnCall' = [op |-> "applyChange", args |-> <<subject, change>>,
                  result |-> applyChange(subject, change)]

\* matchChange(change, matchPath)
CallMatchChange(change, matchPath) ==
    /\ fnCall' = [op |-> "matchChange", args |-> <<change, matchPath>>,
                  result |-> matchChange(change, matchPath)]

\* fontController.pushUndoRecord(change, rollbackChange, undoInfo) with the
\* undo stacks as given
CallPushUndoRecord(stacks, change, rollbackChange) ==
    /\ fnCall' = [op |-> "pushUndoRecord", args |-> <<stacks, change, rollbackChange>>,
                  result |-> FontController_pushUndoRecord(stacks, change,
                                 rollbackChange, ArgUndoInfo)]

\* change trees with operations at the leaves only: operations that assign
\* 1 or 2 to the key k, leaves without an operation, and groups of one or
\* two leaves, with paths given, empty or left out
NestedOps ==
    {Node([f |-> "=", a |-> <<"k", Num(v)>>], path, None) :
        v \in {1, 2}, path \in Opt({<<>>, <<"a">>, <<"#0">>})}

NestedLeaves == NestedOps \cup {EmptyObj, [p |-> <<"a">>]}

NestedGroups ==
    {Node(EmptyObj, path, Some(children)) :
        path \in Opt({<<"a">>, <<"#0">>}),
        children \in {<<x>> : x \in NestedLeaves}
                        \cup {<<x, y>> : x \in NestedLeaves, y \in NestedLeaves}}

\* the groups of one leaf
NestedSingles ==
    {Node(EmptyObj, path, Some(<<x>>)) :
        path \in Opt({<<"a">>, <<"#0">>}), x \in NestedLeaves}

\* the lists handed to consolidateChanges: one leaf or group, one group of
\* one group, or two of the leaves and the groups of one leaf
NestedLists ==
    {<<x>> : x \in NestedLeaves \cup NestedGroups}
        \cup {<<Node(EmptyObj, path, Some(<<g>>))>> :
                  path \in Opt({<<"a">>}), g \in NestedGroups}
        \cup {<<x, y>> : x \in NestedLeaves \cup NestedSingles,
                          y \in NestedLeaves \cup NestedSingles}

\* consolidateChanges(changes) on change trees with operations at the leaves
CallConsolidateNested(changes) ==
    /\ fnCall' = [op |-> "consolidateChanges: nested", args |-> <<changes>>,
                  result |-> consolidateChanges(changes, <<>>)]

\* one call of one function, on arguments of the sets above
ChangesStep ==
    /\ fnCall = NoFnCall
    /\ \/ \E n \in 2..MaxListLen : \E changes \in OpChangeLists(n) :
              CallConsolidateList(changes)
       \/ \E tree \in NoOpTrees : CallConsolidateNoOp(AsArray(tree))
       \/ \E changes \in ListsUpTo(NoOpLeaves, 0, MaxListLen) :
              CallConsolidateNoOp(changes)
       \/ \E x \in RawChanges : CallConsolidateSingle(x)
       \/ \E changes \in NestedLists : CallConsolidateNested(changes)
       \/ \E n \in (-1)..MaxEntries : CallCollectorChange(ArgCollector(0, n, n))
       \/ \E subject \in ArgDocs, change \in ApplyChanges :
              CallApplyChange(subject, change)
       \/ \E change \in MatchChanges, matchPath \in MatchPaths :
              CallMatchChange(change, matchPath)
       \/ \E stacks \in ArgUndoStacks, change \in PushChanges,
                rollbackChange \in PushChanges :
              CallPushUndoRecord(stacks, change, rollbackChange)
       \/ \E n \in 1..MaxOperands : \E collectors \in ArgCollectorLists(n + 1) :
              CallConcat(collectors)

\* ------------------------------------------------------------------------
\* utils: one function wrapped by throttleCalls, the times it is called at
\* and the times func runs at
\* ------------------------------------------------------------------------

\* calls of the wrapped function
MaxThrottleCalls == 4

InitThrottle ==
    throttle = [th |-> [lastTime |-> 0, timeoutID |-> 0], timers |-> {},
                now |-> MinTime + TimeStep, nextID |-> 1, calls |-> 0,
                sends |-> <<>>]

\* the wrapped function is called at time now: func runs at once or a timer
\* is set for it
ThrottledCall ==
    LET r == throttleCalls(throttle.th, throttle.timers, throttle.now,
                           throttle.nextID, 1, throttle.calls + 1, EmptyObj)
    IN  /\ throttle.calls < MaxThrottleCalls
        /\ throttle' = [throttle EXCEPT
               !.th = r.th,
               !.timers = r.timers,
               !.nextID = IF r.called THEN @ ELSE @ + 1,
               !.calls = @ + 1,
               !.sends = IF r.called THEN Append(@, throttle.now) ELSE @]

\* time passes, freely up to MaxTime and beyond it while a timer is waiting
ThrottleTick ==
    /\ \/ throttle.now < MaxTime
       \/ \E t \in throttle.timers : t.deadline > throttle.now
    /\ throttle' = [throttle EXCEPT !.now = @ + TimeStep]

\* the callback of a timer that is due: timeoutID is reset and func runs
ThrottleTimerFire(t) ==
    /\ t \in throttle.timers
    /\ throttle.now >= t.deadline
    /\ throttle' = [throttle EXCEPT
           !.th.timeoutID = 0,
           !.timers = @ \ {t},
           !.sends = Append(@, throttle.now)]

ThrottleStep ==
    \/ ThrottledCall
    \/ ThrottleTick
    \/ \E t \in throttle.timers : ThrottleTimerFire(t)

\* ------------------------------------------------------------------------
\* Specifications
\* ------------------------------------------------------------------------

Init ==
    /\ InitCollector /\ InitUndo /\ InitEdit /\ InitFont /\ InitChanges
    /\ InitLoad /\ InitInstances /\ InitFetch /\ InitThrottle

NextCollector == CollectorStep /\ UNCHANGED <<undoVars, editVars, fontVars, callVars, loadVars, instVars, fetchVars, throttleVars>>

SpecCollector == Init /\ [][NextCollector]_vars

\* the collectors and what is added to them, in any order and whatever the
\* document
NextShapes ==
    ShapeStep /\ UNCHANGED <<undoVars, editVars, fontVars, callVars, loadVars, instVars, fetchVars, throttleVars>>

SpecShapes == Init /\ [][NextShapes]_vars

\* the collectors and additions in pairs: every addChange is followed at
\* once by the addRollbackChange of the same collector
NextPairs ==
    PairStep /\ UNCHANGED <<undoVars, editVars, fontVars, callVars, loadVars, instVars, fetchVars, throttleVars>>

SpecPairs == Init /\ [][NextPairs]_vars

NextUndo == UndoStep /\ UNCHANGED <<collVars, editVars, fontVars, callVars, loadVars, instVars, fetchVars, throttleVars>>

SpecUndo == Init /\ [][NextUndo]_vars

Next == EditStep /\ UNCHANGED <<collVars, undoVars, fontVars, callVars, loadVars, instVars, fetchVars, throttleVars>>

Spec == Init /\ [][Next]_vars

\* the clock goes on, the event loop runs the timers that are due, and the
\* glyphChanged() an editIncremental awaits returns
Fairness ==
    WF_vars((Tick \/ (\E t \in timers : TimerFire(t)) \/ IncrementalSend
                  \/ (\E s \in 1..Len(ctx) : CancelGlyphChanged(s)))
            /\ UNCHANGED <<collVars, undoVars, fontVars, callVars, loadVars, instVars, fetchVars, throttleVars>>)

SpecFair == Spec /\ Fairness

\* the first edit session alone, with all it leaves behind: its context, its
\* throttle and timers, its editFinal or editCancel
NextFirst == Next /\ Len(hist') = 1

SpecFirstFair == Init /\ [][NextFirst]_vars /\ Fairness

\* the calls the code awaits return: the glyphChanged() of editFinal and of
\* the editIncremental of a rollback, and the remote editFinal
RemoteFairness ==
    WF_vars(((\E s \in 1..Len(ctx) : FinalGlyphChanged(s))
                 \/ (\E s \in 1..Len(ctx), error \in BOOLEAN : FinalRemoteReturn(s, error))
                 \/ RollbackIncrementalSend)
            /\ UNCHANGED <<collVars, undoVars, fontVars, callVars, loadVars, instVars, fetchVars, throttleVars>>)

\* the first edit session alone, every call it awaits returning
SpecFirstRemoteFair == Init /\ [][NextFirst]_vars /\ Fairness /\ RemoteFairness

\* the edit sessions with one session more than MaxSessions, so that an
\* edit can start while what the edit before it left behind is going on
NextOverlap ==
    /\ EditStep \/ \E g \in GlyphNames : StartEditUpTo(g, MaxSessions + 1)
    /\ UNCHANGED <<collVars, undoVars, fontVars, callVars, loadVars, instVars, fetchVars, throttleVars>>

SpecOverlap == Init /\ [][NextOverlap]_vars

\* a change of glyph g made elsewhere arrives while no edit function is
\* running: fontController.applyChange(change, true); the sessions of g
\* whose edit function has completed are marked as overtaken by it
ExternalChange(g) ==
    LET r == FontController_applyChange(docs, rootObject, undoStacks,
                                        GlyphChange(g, 7), TRUE)
    IN  /\ pc \notin {"editFunc", "incremental", "rollbackInc"}
        /\ docs' = r.cache
        /\ undoStacks' = r.stacks
        /\ hist' = [s \in 1..Len(hist) |->
                       IF hist[s].glyphName = g /\ hist[s].outcome # "running"
                       THEN [hist[s] EXCEPT !.overtaken = TRUE] ELSE hist[s]]
        /\ UNCHANGED <<now, glyphEditingDonePromise, cancelGlyphEditing, pc, edit, inc,
                       ctx, timers, nextTimerID, remote, notifications, selection,
                       thrown, dialogs>>

\* the edit sessions with changes of the glyphs arriving from elsewhere
NextExternal ==
    /\ EditStep \/ \E g \in GlyphNames : ExternalChange(g)
    /\ UNCHANGED <<collVars, undoVars, fontVars, callVars, loadVars, instVars, fetchVars, throttleVars>>

SpecExternal == Init /\ [][NextExternal]_vars

NextChanges ==
    ChangesStep /\ UNCHANGED <<collVars, undoVars, editVars, fontVars, loadVars, instVars, fetchVars, throttleVars>>

SpecChanges == Init /\ [][NextChanges]_vars

NextFont == FontStep /\ UNCHANGED <<collVars, undoVars, sessionVars, callVars, loadVars, instVars, fetchVars, throttleVars>>

SpecFont == Init /\ [][NextFont]_vars

\* one call of loadGlyphs, with glyphs loaded by others before and meanwhile
NextLoad ==
    /\ LoadStep
    /\ UNCHANGED <<collVars, undoVars, sessionVars, callVars, instVars, fetchVars, throttleVars>>

SpecLoad == Init /\ [][NextLoad]_vars

\* the instance cache: instances asked for, evicted and purged
NextInstances ==
    /\ InstanceStep
    /\ UNCHANGED <<collVars, undoVars, sessionVars, callVars, loadVars, fetchVars, throttleVars>>

SpecInstances == Init /\ [][NextInstances]_vars

\* the glyphs loaded, changed and reloaded, with components of any kind
NextDeps ==
    /\ DepsStep
    /\ UNCHANGED <<collVars, undoVars, sessionVars, callVars, loadVars, fetchVars, throttleVars>>

SpecDeps == Init /\ [][NextDeps]_vars

\* getGlyph calls, the remote returning in any order, and purges
NextFetch ==
    /\ FetchStep
    /\ UNCHANGED <<collVars, undoVars, editVars, fontVars, callVars, loadVars, instVars, throttleVars>>

SpecFetch == Init /\ [][NextFetch]_vars

\* one throttled function, called at any times
NextThrottle ==
    /\ ThrottleStep
    /\ UNCHANGED <<collVars, undoVars, editVars, fontVars, callVars, loadVars, instVars, fetchVars>>

SpecThrottle == Init /\ [][NextThrottle]_vars

\* ------------------------------------------------------------------------
\* Properties
\* ------------------------------------------------------------------------

\* C1: applying collector.change to the original document and then
\* collector.rollbackChange restores the original document, whenever every
\* recorded operation has been paired with its inverse
RollbackInversion ==
    pending.id = 0 =>
        LET fw == applyChange(OrigDoc, getChange(Heap, 1))
            rb == applyChange(fw.doc, getRollbackChange(Heap, 1))
        IN  ~fw.err /\ ~rb.err /\ rb.doc = OrigDoc

\* C2: right after pushUndoRecord(R) the redo peek is undefined and the undo
\* peek is R, whatever calls came before
PushClearsRedo ==
    lastCall.op = "push" =>
        /\ getTopUndoRedoRecord(ustack, TRUE) = Undefined
        /\ getTopUndoRedoRecord(ustack, FALSE) = lastCall.rec

\* a push was made while the redo stack held a record
PushClearsRedoWitness ==
    /\ lastCall.op = "push"
    /\ Len(lastCall.before.redoStack) > 0
    /\ Len(lastCall.before.undoStack) > 0

\* C3: an undo pop returns the top undo record R and leaves R on top of the
\* redo stack; a redo pop made right after it returns R again and puts both
\* stacks back as they were before the undo
UndoRedoSymmetry ==
    /\ (lastCall.op = "pop" /\ ~lastCall.isRedo /\ Len(lastCall.before.undoStack) > 0) =>
          /\ lastCall.ret = getTopUndoRedoRecord(lastCall.before, FALSE)
          /\ getTopUndoRedoRecord(ustack, TRUE) = lastCall.ret
          /\ Len(ustack.undoStack) + Len(ustack.redoStack) =
                Len(lastCall.before.undoStack) + Len(lastCall.before.redoStack)
    /\ (/\ lastCall.op = "pop" /\ lastCall.isRedo
        /\ prevCall.op = "pop" /\ ~prevCall.isRedo
        /\ prevCall.ret # Undefined) =>
          /\ lastCall.ret = prevCall.ret
          /\ getTopUndoRedoRecord(ustack, FALSE) = prevCall.ret
          /\ ustack = prevCall.before

\* an undo directly followed by a redo, on a stack holding further records
UndoRedoSymmetryWitness ==
    /\ lastCall.op = "pop" /\ lastCall.isRedo
    /\ prevCall.op = "pop" /\ ~prevCall.isRedo
    /\ prevCall.ret # Undefined
    /\ Len(prevCall.before.undoStack) > 1
    /\ Len(prevCall.before.redoStack) > 0

\* C4: when the remote editFinal of an edit returned an error, no undo
\* record of that edit is on any undo stack
UndoRecordOnlyAfterSuccess ==
    \A s \in 1..Len(ctx) :
        ctx[s].final.error =>
            \A g \in DOMAIN undoStacks :
                \A i \in 1..Len(undoStacks[g].undoStack) :
                    undoStacks[g].undoStack[i].info.label # s

\* C8: the remote receives no incremental change of a session after the
\* final commit of that session
NoIncrementalAfterFinal ==
    \A s \in 1..Len(remote) :
        \A i \in 1..Len(remote[s]) : \A j \in 1..Len(remote[s]) :
            i < j /\ remote[s][i].kind = "editFinal"
                => remote[s][j].kind # "editIncremental"

\* the final commit of session s has reached the remote
FinalSent(s) == \E i \in 1..Len(remote[s]) : remote[s][i].kind = "editFinal"

\* an undo record of session s is on an undo or redo stack
HasUndoRecord(s) ==
    \E g \in DOMAIN undoStacks :
        \/ \E i \in 1..Len(undoStacks[g].undoStack) :
               undoStacks[g].undoStack[i].info.label = s
        \/ \E i \in 1..Len(undoStacks[g].redoStack) :
               undoStacks[g].redoStack[i].info.label = s

\* C5: cancelEditing during a running edit only leaves its reason behind, the
\* edit function goes on; when the edit function then returns with a change,
\* the rollback is applied to the local subject and handed to editIncremental
\* with mayDrop false, which sends it to the remote in that call; the session
\* ends cancelled (editCancel is called, the dialog is shown), and no final
\* commit is sent and no undo record pushed for it
CooperativeCancellation ==
    /\ [][/\ (glyphEditingDonePromise /\ cancelGlyphEditing' # cancelGlyphEditing
               /\ cancelGlyphEditing' # "")
              => UNCHANGED <<glyphEditingDonePromise, pc, edit, inc, ctx, timers,
                             remote, notifications, docs, selection, undoStacks,
                             dialogs>>
          /\ (pc = "editFunc" /\ pc' \notin {"editFunc", "incremental"}
               /\ cancelGlyphEditing # "" /\ hist'[Cur].hadChange)
              => /\ pc' = "rollbackInc"
                 /\ docs'[edit.glyphName] = edit.startSubject
                 /\ inc'.mayDrop = FALSE
                 /\ applyChange(docs[edit.glyphName], inc'.change).doc
                        = edit.startSubject
                 /\ ctx'[Cur].final.pc = "none"
          /\ (pc = "rollbackInc" /\ pc' # "rollbackInc")
              => /\ remote'[Cur] = Append(remote[Cur],
                        IncrementalMsg(Cur, inc.n,
                            consolidateChanges(AsArray(inc.change),
                                               ctx[Cur].baseChangePath)))
                 /\ hist'[Cur].outcome = "cancelled"
                 /\ ctx'[Cur].cancel = "glyphChanged"
                 /\ dialogs' = dialogs + 1
                 /\ ~glyphEditingDonePromise'
         ]_vars
    /\ [](\A s \in 1..Len(hist) :
            (hist[s].cancelRequested /\ hist[s].hadChange)
                => /\ ~FinalSent(s)
                   /\ ~HasUndoRecord(s)
                   /\ s <= Len(ctx) => ctx[s].final.pc = "none"
                   /\ hist[s].outcome \in {"running", "cancelled"})

\* a cancelled session that had sent an incremental change before its rollback
CooperativeCancellationWitness ==
    \E s \in 1..Len(hist) :
        /\ hist[s].outcome = "cancelled"
        /\ hist[s].cancelRequested
        /\ Len(remote[s]) > 1
        /\ docs[ctx[s].glyphName] = [k |-> Num(0)]

\* C6: a call of _editGlyphOrInstance during a running edit throws and
\* changes nothing else: the promise of the running edit stays, no
\* notification is sent, and the state the running edit goes on from is the
\* one it had
RejectedEditLeavesRunning ==
    [][thrown' # thrown
          => /\ glyphEditingDonePromise /\ glyphEditingDonePromise'
             /\ pc # "idle"
             /\ UNCHANGED <<now, cancelGlyphEditing, pc, edit, inc, ctx, timers,
                            nextTimerID, remote, notifications, docs, selection,
                            undoStacks, dialogs, hist>>]_vars

\* an edit that was finalized after an attempt to start another one failed
RejectedEditLeavesRunningWitness ==
    /\ thrown > 0
    /\ \E s \in 1..Len(hist) : hist[s].outcome = "final" /\ HasUndoRecord(s)

\* the remote has received the n-th incremental change of session s
Delivered(s, n) ==
    \E i \in 1..Len(remote[s]) :
        remote[s][i].kind = "editIncremental" /\ remote[s][i].n = n

\* C7: the incremental changes the remote has received of a session are
\* changes the session generated, consolidated under its base path, and they
\* arrived in the order they were generated in
DeliveredInOrder ==
    \A s \in 1..Len(remote) :
        /\ \A i \in 1..Len(remote[s]) :
               remote[s][i].kind = "editIncremental"
                   => /\ remote[s][i].n \in 1..Len(hist[s].gen)
                      /\ remote[s][i].change =
                             consolidateChanges(
                                 AsArray(hist[s].gen[remote[s][i].n].change),
                                 ctx[s].baseChangePath)
        /\ \A i \in 1..Len(remote[s]) : \A j \in 1..Len(remote[s]) :
               (i < j /\ remote[s][i].kind = "editIncremental"
                      /\ remote[s][j].kind = "editIncremental")
                   => remote[s][i].n < remote[s][j].n

\* a session of which a change was delivered, the next one dropped and a
\* later one delivered
DeliveredInOrderWitness ==
    \E s \in 1..Len(remote) :
        \E i \in 1..Len(hist[s].gen) : \E j \in 1..Len(hist[s].gen) :
            \E k \in 1..Len(hist[s].gen) :
                i < j /\ j < k /\ Delivered(s, i) /\ ~Delivered(s, j) /\ Delivered(s, k)

\* C9: the step of editIncremental that follows glyphChanged() sends a
\* change with mayDrop false to the remote in that step and leaves no timer
\* of the session behind; no change generated before it arrives after it
NonDroppableSentAtOnce ==
    /\ [][(pc \in {"incremental", "rollbackInc"} /\ pc' # pc /\ ~inc.mayDrop)
            => /\ remote'[Cur] = Append(remote[Cur],
                      IncrementalMsg(Cur, inc.n,
                          consolidateChanges(AsArray(inc.change),
                                             ctx[Cur].baseChangePath)))
               /\ \A t \in timers' : t.session # Cur
         ]_vars
    /\ [](\A s \in 1..Len(remote) :
            \A i \in 1..Len(remote[s]) : \A j \in 1..Len(remote[s]) :
               (i < j /\ remote[s][i].kind = "editIncremental"
                      /\ remote[s][j].kind = "editIncremental"
                      /\ ~hist[s].gen[remote[s][i].n].mayDrop)
                   => remote[s][j].n > remote[s][i].n)

\* a change with mayDrop false was delivered while the throttled change
\* generated just before it never was, and no timer of the session is left
NonDroppableSentAtOnceWitness ==
    \E s \in 1..Len(remote) :
        \E m \in 2..Len(hist[s].gen) :
            /\ ~hist[s].gen[m].mayDrop
            /\ Delivered(s, m)
            /\ hist[s].gen[m - 1].mayDrop
            /\ ~Delivered(s, m - 1)
            /\ \A t \in timers : t.session # s

\* C10: a change handed to editIncremental with mayDrop true is in the end
\* delivered to the remote, unless a later incremental change of the session
\* was generated
LastChangeDelivered ==
    \A s \in 1..MaxSessions, n \in 1..MaxChanges :
        (s <= Len(hist) /\ n <= Len(hist[s].gen) /\ hist[s].gen[n].mayDrop)
            ~> (s <= Len(hist) /\ (Delivered(s, n) \/ Len(hist[s].gen) > n))

\* the last change of a session was throttled, nothing came after it, and
\* the timer delivered it
LastChangeDeliveredWitness ==
    \E s \in 1..Len(ctx) :
        LET gen == hist[s].gen
        IN  /\ Len(gen) >= 2
            /\ gen[Len(gen)].mayDrop
            /\ ctx[s].throttledID # 0
            /\ Delivered(s, Len(gen))
            /\ hist[s].outcome # "running"

\* the undo stack of glyph g is the same before and after the step
SameUndoStack(g) ==
    /\ Has(undoStacks, g) = Has(undoStacks', g)
    /\ Has(undoStacks, g) => undoStacks'[g] = undoStacks[g]

\* C11: after applyChange of an external change, and after reloadGlyphs,
\* every glyph the change touches (every glyph named in the reload) has no
\* undo stack, and the undo stack of every other glyph is as it was
ExternalInvalidation ==
    [][/\ (lastFontCall'.op = "applyChange" /\ lastFontCall'.isExternalChange
            /\ ~lastFontCall'.err)
           => \A g \in FontGlyphNames :
                  IF g \in collectGlyphNames(lastFontCall'.change)
                  THEN ~Has(undoStacks', g)
                  ELSE SameUndoStack(g)
       /\ lastFontCall'.op = "reloadGlyphs"
           => \A g \in FontGlyphNames :
                  IF g \in lastFontCall'.names
                  THEN ~Has(undoStacks', g)
                  ELSE SameUndoStack(g)
      ]_vars

\* the length of the longest common prefix of the paths of the changes
CommonPrefixLen(changes) ==
    LET IsCommon(n) ==
            \A i \in 1..Len(changes) :
                /\ Len(changes[i].p) >= n
                /\ SubSeq(changes[i].p, 1, n) = SubSeq(changes[1].p, 1, n)
    IN  CHOOSE n \in 0..Len(changes[1].p) : IsCommon(n) /\ ~IsCommon(n + 1)

\* the change with the first n segments of its path removed
WithoutPrefix(change, n) ==
    IF Len(change.p) = n THEN Without(change, "p")
    ELSE [change EXCEPT !.p = SubSeq(change.p, n + 1, Len(change.p))]

\* C12: consolidateChanges of two or more operation changes with paths
\* returns the node whose path is the longest common prefix of the paths
\* (no path if there is none) and whose children are the changes, in their
\* order, without that prefix
PrefixHoisting ==
    fnCall.op = "consolidateChanges" /\ Len(fnCall.args[1]) >= 2
        => LET changes == fnCall.args[1]
               n == CommonPrefixLen(changes)
               children == [i \in 1..Len(changes) |-> WithoutPrefix(changes[i], n)]
           IN  fnCall.result =
                   IF n = 0 THEN [c |-> children]
                   ELSE [p |-> SubSeq(changes[1].p, 1, n), c |-> children]

\* C13: applying collector.change to the original document gives the
\* document the recorded operations gave when they were made in the order
\* of the addChange calls
ForwardOrder ==
    LET fw == applyChange(OrigDoc, getChange(Heap, 1))
    IN  ~fw.err /\ fw.doc = work

\* the entries of a list of a collector, none if the list was never created
EntriesOf(list) == IF list.defined THEN list.items ELSE <<>>

\* the lists of the collectors cs[from..Len(cs)] one after the other
RECURSIVE InArgumentOrder(_, _, _)
InArgumentOrder(cs, from, field) ==
    IF from > Len(cs) THEN <<>>
    ELSE EntriesOf(cs[from][field]) \o InArgumentOrder(cs, from + 1, field)

\* the lists of the collectors cs[Len(cs)], ..., cs[from] one after the other
RECURSIVE InReverseArgumentOrder(_, _, _)
InReverseArgumentOrder(cs, from, field) ==
    IF from > Len(cs) THEN <<>>
    ELSE InReverseArgumentOrder(cs, from + 1, field) \o EntriesOf(cs[from][field])

\* C14: the forward list of c.concat(o1, ..., on) is the forward entries of
\* c, o1, ..., on in that order, its rollback list the rollback entries of
\* on, ..., o1, c in that order, the entries of each list in their order
ConcatOrder ==
    fnCall.op = "concat"
        => /\ fnCall.result.forwardChanges =
                  InArgumentOrder(fnCall.args, 1, "forwardChanges")
           /\ fnCall.result.rollbackChanges =
                  InReverseArgumentOrder(fnCall.args, 1, "rollbackChanges")

\* a concat of three collectors with two forward and two rollback entries each
ConcatOrderWitness ==
    /\ fnCall.op = "concat"
    /\ Len(fnCall.args) = 3
    /\ Len(fnCall.result.forwardChanges) = 6
    /\ Len(fnCall.result.rollbackChanges) = 6

\* whether no node of the change tree has an operation
RECURSIVE HasNoOperation(_)
HasNoOperation(change) ==
    /\ ~HasFunc(change)
    /\ Has(change, "c") => \A i \in 1..Len(change.c) : HasNoOperation(change.c[i])

\* C15: consolidating change trees without an operation at any node, and
\* the change of a collector on which nothing was recorded, give the empty
\* node {}, and applying the empty node to a document throws nothing and
\* leaves the document as it was
EmptyPruning ==
    /\ (/\ fnCall.op = "consolidateChanges: no operation"
        /\ \A i \in 1..Len(fnCall.args[1]) : HasNoOperation(fnCall.args[1][i]))
           => fnCall.result = EmptyObj
    /\ (fnCall.op = "change" /\ Len(fnCall.args[1].forwardChanges.items) = 0)
           => fnCall.result = EmptyObj
    /\ (fnCall.op = "applyChange" /\ fnCall.args[2] = EmptyObj)
           => fnCall.result = [doc |-> fnCall.args[1], err |-> FALSE]

\* a tree of three levels with paths and no operation was consolidated
EmptyPruningWitness ==
    /\ fnCall.op = "consolidateChanges: no operation"
    /\ Len(fnCall.args[1]) = 1
    /\ HasPath(fnCall.args[1][1])
    /\ Has(fnCall.args[1][1], "c")
    /\ Len(fnCall.args[1][1].c) = 1
    /\ Has(fnCall.args[1][1].c[1], "c")
    /\ Len(fnCall.args[1][1].c[1].c) = 2
    /\ HasPath(fnCall.args[1][1].c[1].c[2])
    /\ fnCall.result = EmptyObj

\* C16: consolidating the result of the consolidation of a single raw
\* change with an operation gives that result again
ConsolidationIdempotent ==
    fnCall.op = "consolidateChanges: single"
        => consolidateChanges(<<fnCall.result>>, <<>>) = fnCall.result

\* a raw change with an operation, an empty path and two children, one of
\* them with a child of its own, was consolidated to something else
ConsolidationIdempotentWitness ==
    /\ fnCall.op = "consolidateChanges: single"
    /\ Has(fnCall.args[1], "p")
    /\ Has(fnCall.args[1], "c")
    /\ Len(fnCall.args[1].c) = 2
    /\ Has(fnCall.args[1].c[1], "c")
    /\ fnCall.result # fnCall.args[1]
    /\ fnCall.result # EmptyObj

\* the path of a change, empty if it has none, and its children
PathOf(change) == IF Has(change, "p") THEN change.p ELSE <<>>

ChildrenOf(change) == IF Has(change, "c") THEN change.c ELSE <<>>

\* the first child of the change whose path leads to nothing from the
\* subject the path of the change leads to; 0 if there is none
FirstUnresolvable(subject, change) ==
    LET target == SubjectAt(subject, PathOf(change))
        bad == {i \in 1..Len(ChildrenOf(change)) :
                   ~Resolves(target, PathOf(change.c[i]))}
    IN  IF bad = {} THEN 0 ELSE CHOOSE i \in bad : \A j \in bad : i <= j

\* C17: applyChange throws when the path of a node leads to nothing; if
\* that node is the root the document is as it was, if it is a child the
\* document is as the root's operation and the children before it left it
UnresolvablePathThrows ==
    fnCall.op = "applyChange"
        => LET subject == fnCall.args[1]
               change == fnCall.args[2]
           IN  IF ~Resolves(subject, PathOf(change))
               THEN fnCall.result = [doc |-> subject, err |-> TRUE]
               ELSE LET i == FirstUnresolvable(subject, change)
                    IN  i > 0 =>
                          /\ fnCall.result.err
                          /\ fnCall.result.doc =
                                 applyChange(subject,
                                     With(change, "c", SubSeq(change.c, 1, i - 1))).doc

\* a root with an operation and a path that resolves, whose second child
\* has a path that leads to nothing, was applied
UnresolvablePathThrowsWitness ==
    /\ fnCall.op = "applyChange"
    /\ HasFunc(fnCall.args[2])
    /\ HasPath(fnCall.args[2])
    /\ Resolves(fnCall.args[1], PathOf(fnCall.args[2]))
    /\ FirstUnresolvable(fnCall.args[1], fnCall.args[2]) = 2
    /\ fnCall.result.err
    /\ fnCall.result.doc # fnCall.args[1]

\* whether p is the beginning of q
IsPrefix(p, q) == Len(p) <= Len(q) /\ SubSeq(q, 1, Len(p)) = p

\* C18: matchChange returns true whenever the path of the node is the
\* beginning of the path to match
PrefixMatches ==
    (fnCall.op = "matchChange" /\ IsPrefix(PathOf(fnCall.args[1]), fnCall.args[2]))
        => fnCall.result = TRUE

\* the paths spelled by the path of the change alone or followed by the
\* path of one of its children, recursively
RECURSIVE Spellings(_)
Spellings(change) ==
    {PathOf(change)}
        \cup UNION {{PathOf(change) \o q : q \in Spellings(change.c[i])} :
                        i \in 1..Len(ChildrenOf(change))}

\* the paths spelled by the path of the change followed by the path of one
\* of its children, recursively
ChildSpellings(change) ==
    UNION {{PathOf(change) \o q : q \in Spellings(change.c[i])} :
               i \in 1..Len(ChildrenOf(change))}

\* whether the paths have different elements at some position of both
DiffersAtSomePosition(p, q) ==
    \E i \in 1..Len(p) : i <= Len(q) /\ p[i] # q[i]

EditFuncThrowsCancels ==
    /\ [][(pc = "editFunc" /\ hist'[Cur].outcome = "threw")
              => /\ selection' = edit.initialSelection
                 /\ ctx'[Cur].cancel = "glyphChanged"
                 /\ hist'[Cur].rejected
                 /\ ~glyphEditingDonePromise'
                 /\ pc' = "idle"
                 /\ cancelGlyphEditing' = ""
                 /\ UNCHANGED <<remote, notifications, undoStacks>>
         ]_vars
    /\ [](\A s \in 1..Len(hist) :
            hist[s].outcome = "threw"
                => /\ ~FinalSent(s)
                   /\ ~HasUndoRecord(s)
                   /\ ctx[s].final.pc = "none"
                   /\ ctx[s].cancel = "done"
                         => notifications[s][Len(notifications[s])] = "editEnd")
    /\ \A s \in 1..MaxSessions :
          (s <= Len(hist) /\ hist[s].outcome = "threw")
              ~> (/\ s <= Len(ctx)
                  /\ ctx[s].cancel = "done"
                  /\ notifications[s][Len(notifications[s])] = "editEnd")

\* the edit function sent a change, made another and threw; the selection
\* is the one from before the edit and the listeners got editEnd
EditFuncThrowsCancelsWitness ==
    /\ Len(hist) >= 1
    /\ hist[1].outcome = "threw"
    /\ hist[1].rejected
    /\ Len(hist[1].gen) >= 1
    /\ hist[1].unsent
    /\ docs["A"] # [k |-> Num(0)]
    /\ selection = 0
    /\ ~glyphEditingDonePromise
    /\ ctx[1].cancel = "done"
    /\ notifications[1][Len(notifications[1])] = "editEnd"

\* C21: when the edit function returns without a change, that step calls
\* editCancel and ends the edit; it sends nothing to the remote, leaves the
\* undo stacks as they are, shows no dialog and throws nothing; no final
\* commit is ever sent and no undo record ever pushed for the session
NoOpEditCancels ==
    /\ [][(pc = "editFunc" /\ hist'[Cur].outcome = "noop")
              => /\ ctx'[Cur].cancel = "glyphChanged"
                 /\ ctx'[Cur].final.pc = "none"
                 /\ ~hist'[Cur].rejected
                 /\ ~glyphEditingDonePromise'
                 /\ selection' = edit.initialSelection
                 /\ UNCHANGED <<remote, undoStacks, dialogs, thrown, docs>>
         ]_vars
    /\ [](\A s \in 1..Len(hist) :
            hist[s].outcome = "noop"
                => /\ ~FinalSent(s)
                   /\ ~HasUndoRecord(s)
                   /\ ~hist[s].rejected
                   /\ ctx[s].final.pc = "none"
                   /\ ctx[s].cancel = "done"
                         => notifications[s] = <<"editBegin", "editEnd">>)

\* an edit function returned without a change and editCancel has run
NoOpEditCancelsWitness ==
    /\ Len(hist) >= 1
    /\ hist[1].outcome = "noop"
    /\ ~hist[1].hadChange
    /\ ctx[1].cancel = "done"
    /\ remote[1] = <<>>
    /\ undoStacks = EmptyObj
    /\ dialogs = 0
    /\ ~glyphEditingDonePromise

\* the glyph undoRedoGlyph was called for in the step
CalledGlyph == CHOOSE g \in FontGlyphNames : lastFontCall'.names = {g}

\* C22: undoRedoGlyph with a record on the stack it pops from applies the
\* rollbackChange of the record (undo) or its change (redo) to the cached
\* glyph and sends the applied change with its counterpart as rollback to
\* the remote; it returns the info of the record, for a redo with
\* undoSelection and redoSelection exchanged and the other keys as they
\* are; the record moves to the other stack as it was
UndoRedoApplies ==
    [][(/\ lastFontCall'.op = "undoRedoGlyph"
        /\ Has(undoStacks, CalledGlyph)
        /\ Len(IF lastFontCall'.isRedo THEN undoStacks[CalledGlyph].redoStack
               ELSE undoStacks[CalledGlyph].undoStack) > 0)
         => LET g == CalledGlyph
                isRedo == lastFontCall'.isRedo
                from == IF isRedo THEN undoStacks[g].redoStack
                        ELSE undoStacks[g].undoStack
                to == IF isRedo THEN undoStacks[g].undoStack
                      ELSE undoStacks[g].redoStack
                rec == from[Len(from)]
                applied == IF isRedo THEN rec.change ELSE rec.rollbackChange
                other == IF isRedo THEN rec.rollbackChange ELSE rec.change
                ret == lastFontCall'.ret
            IN  /\ ~lastFontCall'.err
                /\ Has(glyphsPromiseCache, g)
                      => glyphsPromiseCache' =
                             applyChange([glyphs |-> glyphsPromiseCache], applied).doc.glyphs
                /\ lastFontCall'.sent =
                       <<FinalMsg(0, applied, other, rec.info.label, TRUE)>>
                /\ DOMAIN ret = DOMAIN rec.info
                /\ \A k \in DOMAIN ret \ {"undoSelection", "redoSelection"} :
                       ret[k] = rec.info[k]
                /\ ret.undoSelection = IF isRedo THEN rec.info.redoSelection
                                       ELSE rec.info.undoSelection
                /\ ret.redoSelection = IF isRedo THEN rec.info.undoSelection
                                       ELSE rec.info.redoSelection
                /\ (IF isRedo THEN undoStacks'[g].redoStack ELSE undoStacks'[g].undoStack)
                       = SubSeq(from, 1, Len(from) - 1)
                /\ (IF isRedo THEN undoStacks'[g].undoStack ELSE undoStacks'[g].redoStack)
                       = Append(to, rec)
      ]_vars

\* a redo of a record of a cached glyph changed the glyph and returned an
\* info whose selections differ
UndoRedoAppliesWitness ==
    /\ lastFontCall.op = "undoRedoGlyph"
    /\ lastFontCall.isRedo
    /\ lastFontCall.sent # <<>>
    /\ lastFontCall.ret # Undefined
    /\ lastFontCall.ret.undoSelection # lastFontCall.ret.redoSelection
    /\ Has(glyphsPromiseCache, "B")
    /\ lastFontCall.names = {"B"}
    /\ Len(undoStacks["B"].undoStack) = 1
    /\ glyphsPromiseCache["B"].k = Num(1)

\* the paths from the root to the nodes of the change
RECURSIVE NodePaths(_, _)
NodePaths(change, prefix) ==
    LET path == prefix \o PathOf(change)
    IN  {path} \cup UNION {NodePaths(change.c[i], path) :
                              i \in 1..Len(ChildrenOf(change))}

\* the glyphs the change references: those a node of it leads to or into
GlyphsReferenced(change) ==
    {q[2] : q \in {r \in NodePaths(change, <<>>) : Len(r) >= 2 /\ r[1] = "glyphs"}}

\* C23: pushUndoRecord with a change and a rollback that do not both
\* reference exactly one glyph, the same for both, throws and leaves the
\* map of undo stacks as it was
InconsistentRecordRejected ==
    (/\ fnCall.op = "pushUndoRecord"
     /\ ~\E g \in FontGlyphNames :
            /\ GlyphsReferenced(fnCall.args[2]) = {g}
            /\ GlyphsReferenced(fnCall.args[3]) = {g})
        => /\ fnCall.result.err
           /\ fnCall.result.stacks = fnCall.args[1]

\* a change of glyph A with a rollback of glyph B was rejected while glyph
\* A had an undo stack
InconsistentRecordRejectedWitness ==
    /\ fnCall.op = "pushUndoRecord"
    /\ fnCall.args[1] # EmptyObj
    /\ GlyphsReferenced(fnCall.args[2]) = {"A"}
    /\ GlyphsReferenced(fnCall.args[3]) = {"B"}
    /\ fnCall.result.err
    /\ fnCall.result.stacks = fnCall.args[1]

\* C25: a raw change with an operation of its own and exactly one child
\* left after pruning is consolidated to a node that still has the
\* operation and the arguments of the raw change, and the child under it
OwnOperationKept ==
    (/\ fnCall.op = "consolidateChanges: single"
     /\ Has(fnCall.args[1], "c")
     /\ Len(UnnestAndFilter(fnCall.args[1].c)) = 1)
        => /\ HasFunc(fnCall.result)
           /\ fnCall.result.f = fnCall.args[1].f
           /\ fnCall.result.a = fnCall.args[1].a
           /\ Has(fnCall.result, "c")
           /\ fnCall.result.c = UnnestAndFilter(fnCall.args[1].c)

\* C26: a session has notified editBegin only if every session before it
\* has notified editEnd
SessionsNeverOverlap ==
    \A s1 \in 1..Len(notifications), s2 \in 1..Len(notifications) :
        (s1 < s2 /\ \E i \in 1..Len(notifications[s2]) : notifications[s2][i] = "editBegin")
            => \E i \in 1..Len(notifications[s1]) : notifications[s1][i] = "editEnd"

\* C27: no undo or redo stack holds a record of a session whose edit
\* function had completed when a change of its glyph made elsewhere was
\* applied
NoRecordOfOvertakenEdit ==
    \A s \in 1..Len(hist) : hist[s].overtaken => ~HasUndoRecord(s)

\* whether no node of the change tree has an empty array as its path
RECURSIVE NoEmptyPathIn(_)
NoEmptyPathIn(change) ==
    /\ Has(change, "p") => Len(change.p) > 0
    /\ \A i \in 1..Len(ChildrenOf(change)) : NoEmptyPathIn(change.c[i])

\* C28: no node of the tree consolidateChanges returns, for one change or
\* for several, has an empty array as its path
NoEmptyPathRetained ==
    fnCall.op \in {"consolidateChanges", "consolidateChanges: single",
                   "consolidateChanges: no operation"}
        => NoEmptyPathIn(fnCall.result)

\* the glyphs of the names and what they are made of, through the components
\* of the components
RECURSIVE AllMadeOf(_, _)
AllMadeOf(todo, seen) ==
    IF todo = {} THEN seen
    ELSE LET g == CHOOSE x \in todo : TRUE
         IN  AllMadeOf((todo \cup ComponentNames(g)) \ (seen \cup {g}), seen \cup {g})

\* C29: when the promise of loadGlyphs(glyphNames) is resolved, every glyph
\* asked for and every glyph these are made of, directly or through other
\* glyphs, is loaded, and no loadGlyph is awaiting a glyph
LoadResolvesWhenLoaded ==
    load.resolved =>
        /\ AllMadeOf(load.glyphNames, {}) \subseteq DOMAIN glyphsPromiseCache
        /\ load.awaiting = {}

\* the keys the instance cache holds for glyph g
KeysHeldFor(g) == {key \in CachedKeys(instanceCache) : key[1] = g}

\* the keys recorded for glyph g
KeysRecordedFor(g) == IF Has(instanceCacheKeys, g) THEN instanceCacheKeys[g] ELSE {}

\* C30: when no getGlyphInstance call is awaiting, the keys recorded for a
\* glyph are the keys the instance cache holds for it
InstanceKeysMatchCache ==
    instancePending = {} =>
        \A g \in FontGlyphNames : KeysRecordedFor(g) = KeysHeldFor(g)

\* the names reachable from the name in the graph, by one step or more
RECURSIVE ReachableIn(_, _, _)
ReachableIn(graph, todo, found) ==
    IF todo = {} THEN found
    ELSE LET g == CHOOSE x \in todo : TRUE
             next == IF Has(graph, g) THEN graph[g] ELSE {}
         IN  ReachableIn(graph, (todo \cup (next \ found)) \ {g}, found \cup next)

ReachableFrom(graph, g) == ReachableIn(graph, {g}, {})

\* whether the traversal of the graph from g ends and yields all that is
\* reachable from g
TraversalComplete(graph, g) ==
    LET r == IterDependants(graph, g, {}, TRUE, 1)
    IN  ~r.overflow /\ ReachableFrom(graph, g) \subseteq r.yielded

\* C31: for every dependency graph, cycles included, iterGlyphMadeOf and
\* iterGlyphUsedBy end and yield every glyph reachable from the start glyph
TraversalsTerminate ==
    \A g \in DepGlyphNames :
        TraversalComplete(glyphMadeOf, g) /\ TraversalComplete(glyphUsedBy, g)

\* a graph with a cycle through two glyphs or more, and a glyph that reaches
\* every glyph
TraversalsTerminateWitness ==
    /\ \E g \in DepGlyphNames, h \in DepGlyphNames :
           g # h /\ h \in ReachableFrom(glyphMadeOf, g)
                 /\ g \in ReachableFrom(glyphMadeOf, h)
    /\ \E g \in DepGlyphNames : iterGlyphMadeOf(glyphMadeOf, g) = DepGlyphNames
    /\ \E g \in DepGlyphNames : iterGlyphUsedBy(glyphUsedBy, g) = DepGlyphNames

\* the entry of the name in the map, empty if there is none
EntryOf(map, name) == IF Has(map, name) THEN map[name] ELSE {}

\* C32: glyphUsedBy is the transpose of glyphMadeOf: g is in glyphUsedBy[c]
\* if and only if c is in glyphMadeOf[g]
UsedByIsTranspose ==
    \A g \in DepGlyphNames, c \in DepGlyphNames :
        g \in EntryOf(glyphUsedBy, c) <=> c \in EntryOf(glyphMadeOf, g)

\* a glyph has changed, and a glyph that was a component of a glyph is a
\* component of none now
UsedByIsTransposeWitness ==
    /\ lastFontCall.op = "glyphChanged"
    /\ \E c \in DepGlyphNames : Has(glyphUsedBy, c) /\ glyphUsedBy[c] = {}
    /\ \E g \in DepGlyphNames : EntryOf(glyphMadeOf, g) # {}

\* C39: reloadGlyphs(glyphNames) returns, and afterwards the glyphs named
\* and the glyphs that use them, directly or through other glyphs, are in
\* neither the glyph cache nor the instance cache
ReloadPurgesDependants ==
    lastFontCall.op = "reloadGlyphs" =>
        /\ ~lastFontCall.err
        /\ \A g \in lastFontCall.names :
               \A n \in {g} \cup ReachableFrom(glyphUsedBy, g) :
                   /\ ~Has(glyphsPromiseCache, n)
                   /\ \A i \in 1..Len(instanceCache) : instanceCache[i].key[1] # n

\* C40: a getGlyph call of a name that is not in the glyph map returns null
\* and asks the remote font nothing; a call of a name whose promise is in
\* the cache returns that promise and asks nothing; a call of a name that
\* is in the glyph map and not in the cache asks once, and its promise is
\* the one the cache holds afterwards
GetGlyphShared ==
    [][Len(fetch'.calls) = Len(fetch.calls) + 1 =>
          LET call == fetch'.calls[Len(fetch'.calls)]
          IN  IF call.name \notin FetchGlyphMap
              THEN call.ret = 0 /\ fetch'.requests = fetch.requests
              ELSE IF call.name \in CachedKeys(fetch.cache)
              THEN /\ call.ret = CachedValue(fetch.cache, call.name)
                   /\ fetch'.requests = fetch.requests
                   /\ CachedValue(fetch'.cache, call.name) = call.ret
              ELSE /\ fetch'.requests = Append(fetch.requests, call.name)
                   /\ call.ret = Len(fetch'.requests)
                   /\ CachedValue(fetch'.cache, call.name) = call.ret]_vars

\* two calls of a name have returned the same promise, which is not
\* settled, one request was made for the name, and a call of the name that
\* is not in the glyph map has returned null
GetGlyphSharedWitness ==
    /\ \E i \in 1..Len(fetch.calls), j \in 1..Len(fetch.calls) :
           /\ i < j
           /\ fetch.calls[i].name = fetch.calls[j].name
           /\ fetch.calls[i].ret = fetch.calls[j].ret
           /\ fetch.calls[i].ret # 0
           /\ fetch.calls[i].ret \notin fetch.settled
           /\ Cardinality({r \in 1..Len(fetch.requests) :
                              fetch.requests[r] = fetch.calls[i].name}) = 1
    /\ \E i \in 1..Len(fetch.calls) :
           fetch.calls[i].name = "Z" /\ fetch.calls[i].ret = 0

\* the records of the stack in the order they were made: the undo stack,
\* then the redo stack from its top down
Timeline(stack) ==
    stack.undoStack \o
        [i \in 1..Len(stack.redoStack) |->
            stack.redoStack[Len(stack.redoStack) + 1 - i]]

\* C37: a pop leaves the undo stack followed by the reversed redo stack as
\* it was; a pop that returns undefined, and getTopUndoRedoRecord, leave
\* both stacks as they were
TimelineConserved ==
    /\ lastCall.op = "pop" =>
          /\ Timeline(ustack) = Timeline(lastCall.before)
          /\ lastCall.ret = Undefined <=>
                Len(IF lastCall.isRedo THEN lastCall.before.redoStack
                    ELSE lastCall.before.undoStack) = 0
          /\ lastCall.ret = Undefined => ustack = lastCall.before
    /\ lastCall.op = "top" => ustack = lastCall.before

\* an undo of a stack that holds records to undo and records to redo
TimelineConservedWitness ==
    /\ lastCall.op = "pop" /\ ~lastCall.isRedo
    /\ Len(lastCall.before.undoStack) > 1
    /\ Len(lastCall.before.redoStack) > 0
    /\ ustack # lastCall.before

\* whether no two adjacent entries of the list are path entries with the
\* same path
NoAdjacentEqualPaths(list) ==
    \A i \in 1..(Len(list) - 1) :
        ~(Has(list[i], "p") /\ Has(list[i + 1], "p") /\ list[i].p = list[i + 1].p)

\* the list of the collector, 0 if it has none
ListOf(id, isRollback) == IF isRollback THEN colls[id].rb ELSE colls[id].fwd

\* whether each path entry of the list of collector id holds the list of a
\* collector with that path whose parent has the list of collector id
EntriesOwned(id, isRollback) ==
    LET own == ListOf(id, isRollback)
    IN  own # 0 =>
            \A i \in 1..Len(arrays[own]) :
                Has(arrays[own][i], "c") =>
                    \E x \in 1..Len(colls) :
                        /\ colls[x].parent # 0
                        /\ ListOf(colls[x].parent, isRollback) = own
                        /\ colls[x].path = arrays[own][i].p
                        /\ ListOf(x, isRollback) = arrays[own][i].c

\* what holds of the lists of the collectors
ListsShared ==
    /\ \A arr \in 1..Len(arrays) : NoAdjacentEqualPaths(arrays[arr])
    /\ \A id \in 1..Len(colls) : EntriesOwned(id, FALSE) /\ EntriesOwned(id, TRUE)

\* a sub-collector whose parent has a forward list records its first
\* change: it takes the list of the parent's last entry if that has its
\* path, and otherwise a new entry is pushed for it
FirstForwardShares(id) ==
    LET parent == colls[id].parent
        pa == colls[parent].fwd
        plist == arrays[pa]
    IN  IF Len(plist) > 0 /\ Has(lastItem(plist), "p")
           /\ lastItem(plist).p = colls[id].path
        THEN /\ colls'[id].fwd = lastItem(plist).c
             /\ Len(arrays'[pa]) = Len(plist)
        ELSE /\ Len(arrays'[pa]) = Len(plist) + 1
             /\ lastItem(arrays'[pa]) = [p |-> colls[id].path, c |-> colls'[id].fwd]
             /\ colls'[id].fwd > Len(arrays)

\* the same of its first rollback change and the parent's first entry
FirstRollbackShares(id) ==
    LET parent == colls[id].parent
        pa == colls[parent].rb
        plist == arrays[pa]
    IN  IF Len(plist) > 0 /\ Has(plist[1], "p") /\ plist[1].p = colls[id].path
        THEN /\ colls'[id].rb = plist[1].c
             /\ Len(arrays'[pa]) = Len(plist)
        ELSE /\ Len(arrays'[pa]) = Len(plist) + 1
             /\ arrays'[pa][1] = [p |-> colls[id].path, c |-> colls'[id].rb]
             /\ colls'[id].rb > Len(arrays)

\* C34: a sub-collector that first records reuses the adjacent entry of its
\* parent if that has its path and inserts a new entry otherwise; no list
\* has two adjacent path entries with equal paths, and every path entry of a
\* list holds the list of a sub-collector, so that a sub-collector without a
\* list has no entry
EntrySharing ==
    [][/\ ListsShared'
       /\ \A id \in 1..Len(colls) :
              /\ (/\ colls[id].parent # 0 /\ colls[id].fwd = 0 /\ colls'[id].fwd # 0
                  /\ colls[colls[id].parent].fwd # 0) => FirstForwardShares(id)
              /\ (/\ colls[id].parent # 0 /\ colls[id].rb = 0 /\ colls'[id].rb # 0
                  /\ colls[colls[id].parent].rb # 0) => FirstRollbackShares(id)]_vars

\* two sub-collectors with the same path share a forward list that holds a
\* change of each, and neither has a rollback list
EntrySharingWitness ==
    \E x \in 1..Len(colls), y \in 1..Len(colls) :
        /\ x # y /\ colls[x].fwd # 0 /\ colls[x].fwd = colls[y].fwd
        /\ colls[x].path = colls[y].path
        /\ Len(arrays[colls[x].fwd]) = 2
        /\ colls[x].rb = 0 /\ colls[y].rb = 0

\* the shape of a list of changes: the key of an operation, the path and
\* the shape of the children of a path entry
RECURSIVE ShapeOf(_)
ShapeOf(list) ==
    [i \in 1..Len(list) |->
        IF Has(list[i], "c") THEN [p |-> list[i].p, c |-> ShapeOf(list[i].c)]
        ELSE [key |-> list[i].a[1]]]

\* the shape in reverse order, at every level
RECURSIVE MirrorOf(_)
MirrorOf(shape) ==
    [i \in 1..Len(shape) |->
        LET e == shape[Len(shape) + 1 - i]
        IN  IF Has(e, "c") THEN [p |-> e.p, c |-> MirrorOf(e.c)] ELSE e]

\* C36: when every addChange has been followed at once by the
\* addRollbackChange of the same collector, the rollback list of every
\* collector is the mirror image of its forward list
MirrorInvariant ==
    pending = NoPending =>
        \A id \in 1..Len(colls) :
            /\ colls[id].fwd = 0 <=> colls[id].rb = 0
            /\ colls[id].fwd # 0 =>
                  ShapeOf(ChangeList(arrays, colls[id].rb))
                      = MirrorOf(ShapeOf(ChangeList(arrays, colls[id].fwd)))

\* additions in pairs, on a parent between those of its sub-collectors: the
\* root has a path entry, an operation and a path entry again
MirrorInvariantWitness ==
    /\ pending = NoPending
    /\ colls[1].fwd # 0
    /\ LET list == arrays[colls[1].fwd]
       IN  /\ Len(list) = 3
           /\ Has(list[1], "c") /\ Has(list[2], "f") /\ Has(list[3], "c")
           /\ Len(arrays[list[1].c]) > 0

\* C33: two successive runs of the throttled function are at least MinTime
\* apart, runs at once and runs by the timer alike
MinSendInterval ==
    \A i \in 1..Len(throttle.sends) - 1 :
        throttle.sends[i + 1] - throttle.sends[i] >= MinTime

\* a document in which every path of up to n of the keys a and 0 resolves
RECURSIVE FullDoc(_)
FullDoc(n) ==
    IF n = 0 THEN [k |-> Num(0)]
    ELSE With(With([k |-> Num(0)], "a", FullDoc(n - 1)), "#0", FullDoc(n - 1))

\* the documents the changes are applied to
MeaningDocs == ArgDocs \cup {FullDoc(MaxPathLen + 1)}

\* a node of the change carries both an operation and children
RECURSIVE OpWithChildren(_)
OpWithChildren(change) ==
    /\ Has(change, "c")
    /\ \/ HasFunc(change) /\ Len(change.c) > 0
       \/ \E i \in 1..Len(change.c) : OpWithChildren(change.c[i])

\* the list of changes the last call of consolidateChanges was given
ConsolidatedList ==
    IF fnCall.op = "consolidateChanges: single" THEN fnCall.args ELSE fnCall.args[1]

ConsolidateCalled ==
    fnCall.op \in {"consolidateChanges", "consolidateChanges: no operation",
                   "consolidateChanges: single", "consolidateChanges: nested"}

\* C35: if no node of the changes carries both an operation and children,
\* then on every document the changes apply to one after another without a
\* path that does not resolve, applying consolidateChanges(changes) gives
\* the same document
ConsolidationPreservesMeaning ==
    ConsolidateCalled =>
        \A doc \in MeaningDocs :
            LET inOrder == ApplyChildren(doc, ConsolidatedList)
            IN  (/\ \A i \in 1..Len(ConsolidatedList) :
                        ~OpWithChildren(ConsolidatedList[i])
                 /\ ~inOrder.err)
                    => applyChange(doc, fnCall.result) = inOrder

\* a group in a group is consolidated to one operation with the path of
\* both, and applying it changes the document as the group does
ConsolidationPreservesMeaningWitness ==
    /\ fnCall.op = "consolidateChanges: nested"
    /\ Len(ConsolidatedList) = 1
    /\ ~OpWithChildren(ConsolidatedList[1])
    /\ Has(ConsolidatedList[1], "c")
    /\ HasFunc(fnCall.result)
    /\ Has(fnCall.result, "p") /\ Len(fnCall.result.p) = 2
    /\ LET doc == FullDoc(MaxPathLen + 1)
           inOrder == ApplyChildren(doc, ConsolidatedList)
       IN  ~inOrder.err /\ inOrder.doc # doc

\* the editEnd notifications the listeners got of session s
EditEnds(s) ==
    Len(SelectSeq(notifications[s], LAMBDA name : name = "editEnd"))

\* session s has notified editBegin and its edit function has returned or
\* thrown
EditFuncEnded(s) ==
    /\ s <= Len(ctx)
    /\ \E i \in 1..Len(notifications[s]) : notifications[s][i] = "editBegin"
    /\ \/ hist[s].outcome # "running"
       \/ s = Cur /\ pc = "rollbackInc"

\* C38: a session that has notified editBegin never notifies editEnd more
\* than once, and once its edit function has returned or thrown it does
\* notify editEnd, whether the edit is committed, had no change, threw or
\* was cancelled and rolled back, if the calls it awaits return
EditEndsOnce ==
    /\ [](\A s \in 1..Len(notifications) : EditEnds(s) <= 1)
    /\ \A s \in 1..MaxSessions :
          EditFuncEnded(s) ~> (s <= Len(ctx) /\ EditEnds(s) = 1)

\* an edit that was cancelled from outside has been rolled back and the
\* listeners got its one editEnd
EditEndsOnceWitness ==
    /\ Len(ctx) >= 1
    /\ hist[1].outcome = "cancelled"
    /\ hist[1].cancelRequested
    /\ ctx[1].cancel = "done"
    /\ notifications[1][1] = "editBegin"
    /\ EditEnds(1) = 1

====
